---- MODULE Spec2Model ----
(***************************************************************************)
(* AnyHost tunnel server: the subdomain registry, the server-side session  *)
(* and the control plane's connection handler.                             *)
(*                                                                         *)
(*   RegistrySpec  the Registry driven directly through its methods, the   *)
(*                 way registry_test.go drives it.                         *)
(*   Spec          the control plane: one handleConnection goroutine per   *)
(*                 accepted connection, the HTTP proxy, Stop, and the      *)
(*                 peer / clock as environment.                            *)
(*   FairSpec      Spec with the handler steps and Close scheduled fairly. *)
(***************************************************************************)
EXTENDS Integers, Sequences, FiniteSets, TLC

VARIABLES
    regTunnels,   \* Registry.tunnels: lowercased subdomain -> TunnelEntry
    regSessions,  \* Registry.sessions: set of session ids (keys of the map)
    owner,        \* what the OwnerChecker answers: subdomain -> owning identity
    token,        \* Session.Token of every session
    lastCall,     \* RegistrySpec only: the previous Register call and its result
    cpSessions,   \* ControlPlane.sessions (keys)
    cancelled,    \* ControlPlane.ctx is cancelled
    stopPending,  \* Close goroutines spawned by Stop that have not run yet
    pc,           \* position of each handleConnection goroutine
    request,      \* the first envelope each connection sent
    statuses,     \* tunnelStatuses returned by Register in each handler
    reply,        \* the handshake response each handler sent
    state,        \* Session.state
    sessTunnels,  \* Session.tunnels: subdomain as spelled -> TunnelConfig
    muxClosed,    \* yamux session is closed (by the peer or by Close)
    connClosed,   \* the handler's net.Conn is closed
    idle,         \* Session.IdleDuration() > Timeouts.IdleTimeout
    metrics,      \* Session.metrics: Errors, StreamsOpened, RequestsHandled
    streams,      \* streams the server opened: session, frames written, closed
    px,           \* position and locals of each HTTPProxy.handleRequest call
    bcast,        \* BroadcastShutdown: called, its grace period, the workers
                  \* not yet run, and the sessions active at the call
    poolIdle,     \* ConnectionPool.idle: the stack of pooledConn entries
    numOpen,      \* ConnectionPool.numOpen
    poolClosed,   \* ConnectionPool.closed
    now,          \* the clock the pool reads (time.Now)
    dialled,      \* local connections dialled so far: dial time, status, and
                  \* whether the peer has closed them
    lastGet,      \* the result of the previous ConnectionPool.Get
    waitCount,    \* ConnectionPool.waitCount
    rcConfig,     \* Reconnector.config: the client's ReconnectConfig
    rc,           \* Reconnector: attempts, currentDelay
    rcCalls,      \* NextDelay calls since NewReconnector or the last Reset
    lastDelay,    \* the previous NextDelay call: its number and its result
    tun,          \* the client's Tunnel: state, muxSession, ctx, and the
                  \* position of its acceptLoop goroutine
    wire,         \* the byte stream under a Codec: the buffers written to it,
                  \* in order, and whether it has ended
    codec,        \* Codec: holders of writeMu and readMu, the reader's position
    wr,           \* each WriteMessage caller: position, serialised data, result
    rd,           \* each ReadMessage caller: position, length read, result
    sent,         \* envelopes WriteMessage accepted, in the order of writeMu
    received,     \* what ReadMessage returned, in the order of readMu
    validated,    \* the previous ValidateSubdomain call: argument and result
    lastUnregister, \* RegistrySpec only: the previous call if it was
                  \* Unregister, the registry before it and the Register
                  \* call it followed
    hs,           \* the client's handleStream workers: position, whether
                  \* the header was read, notifications sent, stream closed
    ws            \* the proxy's handleWebSocket calls: position, the two
                  \* copies, what each end has done, what the handler closed

vars == <<regTunnels, regSessions, owner, token, lastCall, cpSessions,
          cancelled, stopPending, pc, request, statuses, reply, state,
          sessTunnels, muxClosed, connClosed, idle, metrics, streams, px,
          bcast, poolIdle, numOpen, poolClosed, now, dialled, lastGet,
          waitCount, rcConfig, rc, rcCalls, lastDelay, tun, wire, codec, wr,
          rd, sent, received, validated, lastUnregister, hs, ws>>

regVars == <<regTunnels, regSessions, owner, token, lastCall>>
cpVars  == <<cpSessions, cancelled, stopPending, pc, request, statuses, reply,
             state, sessTunnels, muxClosed, connClosed, idle>>
pxVars  == <<metrics, streams, px>>
bcVars  == <<bcast>>
poolVars == <<poolIdle, numOpen, poolClosed, now, dialled, lastGet,
              waitCount>>
rcVars == <<rcConfig, rc, rcCalls, lastDelay>>
tunVars == <<tun>>
codecVars == <<wire, codec, wr, rd, sent, received>>
valVars == <<validated>>
unregVars == <<lastUnregister>>
wkVars == <<hs, ws>>
nonRegistryVars == <<pxVars, bcVars, poolVars, rcVars, tunVars, codecVars,
                     valVars, wkVars>>
restVars == <<rcVars, tunVars, codecVars, valVars, unregVars, wkVars>>
nonClientVars == <<regVars, cpVars, pxVars, bcVars, poolVars, codecVars,
                   valVars, unregVars, wkVars>>
nonCodecVars == <<regVars, cpVars, pxVars, bcVars, poolVars, rcVars, tunVars,
                  valVars, unregVars, wkVars>>
nonValVars == <<regVars, cpVars, pxVars, bcVars, poolVars, rcVars, tunVars,
                codecVars, unregVars, wkVars>>
nonWkVars == <<regVars, cpVars, pxVars, bcVars, poolVars, rcVars, tunVars,
               codecVars, valVars, unregVars>>
extVars == <<pxVars, bcVars, poolVars, restVars>>

----------------------------------------------------------------------------
(* Bounds *)

MaxConns == 2

Conns == 1..MaxConns

----------------------------------------------------------------------------
(* Strings are sequences of one-character strings. *)

LowerLetters == {"a","b","c","d","e","f","g","h","i","j","k","l","m",
                 "n","o","p","q","r","s","t","u","v","w","x","y","z"}
Digits == {"0","1","2","3","4","5","6","7","8","9"}

UpperToLower ==
    ("A" :> "a") @@ ("B" :> "b") @@ ("C" :> "c") @@ ("D" :> "d") @@
    ("E" :> "e") @@ ("F" :> "f") @@ ("G" :> "g") @@ ("H" :> "h") @@
    ("I" :> "i") @@ ("J" :> "j") @@ ("K" :> "k") @@ ("L" :> "l") @@
    ("M" :> "m") @@ ("N" :> "n") @@ ("O" :> "o") @@ ("P" :> "p") @@
    ("Q" :> "q") @@ ("R" :> "r") @@ ("S" :> "s") @@ ("T" :> "t") @@
    ("U" :> "u") @@ ("V" :> "v") @@ ("W" :> "w") @@ ("X" :> "x") @@
    ("Y" :> "y") @@ ("Z" :> "z")

\* strings.ToLower
ToLower(s) ==
    [i \in 1..Len(s) |->
        IF s[i] \in DOMAIN UpperToLower THEN UpperToLower[s[i]] ELSE s[i]]

\* subdomainRegex = ^[a-z][a-z0-9-]{2,62}$
RegexMinTail == 2
RegexMaxTail == 62

subdomainRegex(s) ==
    /\ Len(s) >= 1 + RegexMinTail
    /\ Len(s) <= 1 + RegexMaxTail
    /\ s[1] \in LowerLetters
    /\ \A i \in 2..Len(s) : s[i] \in LowerLetters \cup Digits \cup {"-"}

----------------------------------------------------------------------------
(* Inputs *)

web   == <<"w","e","b">>
WebMx == <<"W","e","b">>
docs  == <<"d","o","c","s">>
admin == <<"a","d","m","i","n">>
ab    == <<"a","b">>

Tokens == {"t1", "t2"}

\* ServerConfig.ReservedSubdomains as NewRegistry stores it (lowercased)
reservedSubdomains == {ToLower(s) : s \in {admin, ab}}

TunnelConfig(sub, port) ==
    [Subdomain |-> sub, LocalPort |-> port, LocalHost |-> "127.0.0.1",
     Protocol |-> "http"]

\* Tunnel lists of the handshake requests and Register calls explored
TunnelLists ==
    { <<TunnelConfig(web, 3000)>>,
      <<TunnelConfig(WebMx, 3001), TunnelConfig(docs, 3002)>>,
      <<TunnelConfig(admin, 8080)>>,
      <<TunnelConfig(ab, 3003), TunnelConfig(web, 3004)>> }

\* Subdomains a DB row can reserve in the model
OwnedKeys == {web}

NoOwner == ""

None == [none |-> TRUE]

EmptyMap == [k \in {} |-> None]

MapDelete(m, ks) == [k \in DOMAIN m \ ks |-> m[k]]

----------------------------------------------------------------------------
(* protocol/errors.go *)

NoError              == "ok"
ErrSubdomainTaken    == "SUBDOMAIN_TAKEN"
ErrSubdomainReserved == "SUBDOMAIN_RESERVED"
ErrSubdomainInvalid  == "SUBDOMAIN_INVALID"
ErrTunnelNotFound    == "TUNNEL_NOT_FOUND"
ErrUnauthorized      == "UNAUTHORIZED"

----------------------------------------------------------------------------
(* Registry *)

\* ValidateSubdomain looking the name up in the reserved set first
ValidateSubdomainReservedFirst(subdomain) ==
    LET s == ToLower(subdomain)
    IN  IF s \in reservedSubdomains THEN ErrSubdomainReserved
        ELSE IF ~subdomainRegex(s) THEN ErrSubdomainInvalid
        ELSE NoError

\* Registry.ValidateSubdomain
ValidateSubdomain(subdomain) ==
    LET s == ToLower(subdomain)
    IN  IF ~subdomainRegex(s) THEN ErrSubdomainInvalid
        ELSE IF s \in reservedSubdomains THEN ErrSubdomainReserved
        ELSE NoError

\* SubdomainOwnerChecker.GetSubdomainOwner, a failed query answering ""
GetSubdomainOwner(own, subdomain) ==
    IF subdomain \in DOMAIN own THEN own[subdomain] ELSE NoOwner

\* Register without strings.ToLower: the tunnel is stored as spelled
RegisterKeyAsSpelled(sub) == sub

\* The key Register stores a tunnel under
RegisterKey(sub) == ToLower(sub)

\* Register without the collision check
SubdomainNeverTaken(tunnels, sid, subdomain) == FALSE

\* A collision check that forgets to compare the session ids
SubdomainTakenByAnyone(tunnels, sid, subdomain) == subdomain \in DOMAIN tunnels

\* A collision check that lets go of a holder whose connection has dropped
SubdomainTakenUnlessDropped(tunnels, sid, subdomain) ==
    /\ subdomain \in DOMAIN tunnels
    /\ tunnels[subdomain].Session # sid
    /\ ~muxClosed[tunnels[subdomain].Session]

\* The collision check of Register
SubdomainTaken(tunnels, sid, subdomain) ==
    /\ subdomain \in DOMAIN tunnels
    /\ tunnels[subdomain].Session # sid

\* Register reporting the subdomain as the client spelled it
RegisterOneRawStatus(tunnels, sid, tok, own, tc) ==
    LET subdomain == ToLower(tc.Subdomain)
        status == [Subdomain |-> tc.Subdomain, LocalPort |-> tc.LocalPort,
                   Status |-> "error", Error |-> NoError]
        v == ValidateSubdomain(subdomain)
        o == GetSubdomainOwner(own, subdomain)
    IN  IF v # NoError
        THEN [tunnels |-> tunnels, status |-> [status EXCEPT !.Error = v]]
        ELSE IF o # NoOwner /\ o # tok
        THEN [tunnels |-> tunnels,
              status |-> [status EXCEPT !.Error = ErrSubdomainReserved]]
        ELSE IF subdomain \in DOMAIN tunnels
                /\ tunnels[subdomain].Session # sid
        THEN [tunnels |-> tunnels,
              status |-> [status EXCEPT !.Error = ErrSubdomainTaken]]
        ELSE [tunnels |->
                (subdomain :> [Subdomain |-> subdomain,
                               LocalPort |-> tc.LocalPort,
                               LocalHost |-> tc.LocalHost,
                               Protocol  |-> tc.Protocol,
                               Session   |-> sid]) @@ tunnels,
              status |-> [status EXCEPT !.Status = "active"]]

\* Register looking for a collision before it asks the owner checker
RegisterOneCollisionFirst(tunnels, sid, tok, own, tc) ==
    LET subdomain == RegisterKey(tc.Subdomain)
        status == [Subdomain |-> subdomain, LocalPort |-> tc.LocalPort,
                   Status |-> "error", Error |-> NoError]
        v == ValidateSubdomain(subdomain)
        o == GetSubdomainOwner(own, subdomain)
    IN  IF v # NoError
        THEN [tunnels |-> tunnels, status |-> [status EXCEPT !.Error = v]]
        ELSE IF SubdomainTaken(tunnels, sid, subdomain)
        THEN [tunnels |-> tunnels,
              status |-> [status EXCEPT !.Error = ErrSubdomainTaken]]
        ELSE IF o # NoOwner /\ o # tok
        THEN [tunnels |-> tunnels,
              status |-> [status EXCEPT !.Error = ErrSubdomainReserved]]
        ELSE [tunnels |->
                (subdomain :> [Subdomain |-> subdomain,
                               LocalPort |-> tc.LocalPort,
                               LocalHost |-> tc.LocalHost,
                               Protocol  |-> tc.Protocol,
                               Session   |-> sid]) @@ tunnels,
              status |-> [status EXCEPT !.Status = "active"]]

\* One iteration of the loop of Registry.Register: the status of tunnel tc
\* and the tunnels map after it.
RegisterOne(tunnels, sid, tok, own, tc) ==
    LET subdomain == RegisterKey(tc.Subdomain)
        status == [Subdomain |-> subdomain, LocalPort |-> tc.LocalPort,
                   Status |-> "error", Error |-> NoError]
        v == ValidateSubdomain(subdomain)
        o == GetSubdomainOwner(own, subdomain)
    IN  IF v # NoError
        THEN [tunnels |-> tunnels, status |-> [status EXCEPT !.Error = v]]
        ELSE IF o # NoOwner /\ o # tok
        THEN [tunnels |-> tunnels,
              status |-> [status EXCEPT !.Error = ErrSubdomainReserved]]
        ELSE IF SubdomainTaken(tunnels, sid, subdomain)
        THEN [tunnels |-> tunnels,
              status |-> [status EXCEPT !.Error = ErrSubdomainTaken]]
        ELSE [tunnels |->
                (subdomain :> [Subdomain |-> subdomain,
                               LocalPort |-> tc.LocalPort,
                               LocalHost |-> tc.LocalHost,
                               Protocol  |-> tc.Protocol,
                               Session   |-> sid]) @@ tunnels,
              status |-> [status EXCEPT !.Status = "active"]]

\* A Register loop that gives up at the first tunnel it refuses: every
\* later tunnel is reported refused as well
RECURSIVE RegisterLoopAbortOnError(_, _, _, _, _, _, _)
RegisterLoopAbortOnError(tunnels, results, sid, tok, own, tcs, i) ==
    IF i > Len(tcs) THEN [tunnels |-> tunnels, results |-> results]
    ELSE LET r == RegisterOne(tunnels, sid, tok, own, tcs[i])
             failed == \E j \in 1..Len(results) : results[j].Status = "error"
         IN  IF failed
             THEN RegisterLoopAbortOnError(tunnels,
                      Append(results, [Subdomain |-> ToLower(tcs[i].Subdomain),
                                       LocalPort |-> tcs[i].LocalPort,
                                       Status |-> "error",
                                       Error |-> ErrSubdomainInvalid]),
                      sid, tok, own, tcs, i + 1)
             ELSE RegisterLoopAbortOnError(r.tunnels, Append(results, r.status),
                      sid, tok, own, tcs, i + 1)

\* The loop of Registry.Register over tcs, from position i
RECURSIVE RegisterLoop(_, _, _, _, _, _, _)
RegisterLoop(tunnels, results, sid, tok, own, tcs, i) ==
    IF i > Len(tcs) THEN [tunnels |-> tunnels, results |-> results]
    ELSE LET r == RegisterOne(tunnels, sid, tok, own, tcs[i])
         IN  RegisterLoop(r.tunnels, Append(results, r.status),
                          sid, tok, own, tcs, i + 1)

\* Register without the final r.sessions[session.ID] = session
RegisterTunnelsOnly(tunnels, sessions, sid, tok, own, tcs) ==
    LET r == RegisterLoop(tunnels, <<>>, sid, tok, own, tcs, 1)
    IN  [tunnels |-> r.tunnels, sessions |-> sessions, results |-> r.results]

\* Registry.Register: the registry after the call and the returned statuses
Register(tunnels, sessions, sid, tok, own, tcs) ==
    LET r == RegisterLoop(tunnels, <<>>, sid, tok, own, tcs, 1)
    IN  [tunnels |-> r.tunnels, sessions |-> sessions \cup {sid},
         results |-> r.results]

\* Unregister without the entry.Session.ID == sessionID filter
UnregisterEveryTunnel(tunnels, sessions, sid) ==
    [tunnels |-> MapDelete(tunnels, DOMAIN tunnels),
     sessions |-> sessions \ {sid}]

\* Unregister leaving its loop after the first tunnel it deletes
UnregisterFirstTunnel(tunnels, sessions, sid) ==
    LET mine == {k \in DOMAIN tunnels : tunnels[k].Session = sid}
    IN  [tunnels  |-> MapDelete(tunnels,
                        IF mine = {} THEN {} ELSE {CHOOSE k \in mine : TRUE}),
         sessions |-> sessions \ {sid}]

\* Registry.Unregister
Unregister(tunnels, sessions, sid) ==
    [tunnels  |-> MapDelete(tunnels,
                    {k \in DOMAIN tunnels : tunnels[k].Session = sid}),
     sessions |-> sessions \ {sid}]

\* Registry.UnregisterTunnel
UnregisterTunnel(tunnels, sid, sub) ==
    LET subdomain == ToLower(sub)
    IN  IF subdomain \notin DOMAIN tunnels
        THEN [tunnels |-> tunnels, err |-> ErrTunnelNotFound]
        ELSE IF tunnels[subdomain].Session # sid
        THEN [tunnels |-> tunnels, err |-> ErrUnauthorized]
        ELSE [tunnels |-> MapDelete(tunnels, {subdomain}), err |-> NoError]

\* Registry.Lookup
Lookup(tunnels, sub) ==
    LET subdomain == ToLower(sub)
    IN  IF subdomain \in DOMAIN tunnels THEN tunnels[subdomain] ELSE None

----------------------------------------------------------------------------
(* RegistrySpec: the registry's methods called in any order *)

Subdomains == {web, WebMx, docs, admin, ab}

\* Concurrent calls of HTTPProxy.handleRequest, one request each
MaxRequests == 2
Reqs == 1..MaxRequests

\* SessionMetrics of a new session
ZeroMetrics == [Errors |-> 0, StreamsOpened |-> 0, RequestsHandled |-> 0]

\* A handleRequest call that has not started
PxIdle ==
    [pc |-> "idle", input |-> None, entry |-> None, via |-> "",
     path |-> <<>>, status |-> 0, by |-> "", gotStream |-> FALSE]

\* No request is being proxied, no shutdown is being broadcast
InitPx ==
    /\ metrics = [c \in Conns |-> ZeroMetrics]
    /\ streams = EmptyMap
    /\ px = [q \in Reqs |-> PxIdle]
    /\ bcast = [called |-> FALSE, pending |-> {}, active |-> {}, grace |-> 0]

\* NewConnectionPool
InitPool ==
    /\ poolIdle = <<>>
    /\ numOpen = 0
    /\ poolClosed = FALSE
    /\ now = 0
    /\ dialled = <<>>
    /\ lastGet = None
    /\ waitCount = 0

\* A rational number p/q
Ratio(p, q) == [num |-> p, den |-> q]

\* DefaultClientConfig's reconnect settings, in quarter seconds
DefaultReconnect ==
    [Enabled |-> TRUE, InitialDelay |-> 4, MaxDelay |-> 120,
     Multiplier |-> Ratio(2, 1), MaxAttempts |-> 0]

\* NewReconnector(cfg)
InitRc(cfg) ==
    /\ rcConfig = cfg
    /\ rc = [attempts |-> 0, currentDelay |-> cfg.InitialDelay]
    /\ rcCalls = 0
    /\ lastDelay = None

\* NewTunnel: disconnected, nothing dialled yet
InitTun ==
    tun = [state |-> "disconnected", mux |-> "nil", ctxDone |-> FALSE,
           pc |-> "new"]

\* The callers of WriteMessage and of ReadMessage on one codec
MaxWriters == 2
MaxReaders == 2
Writers == 1..MaxWriters
Readers == 1..MaxReaders

\* NewCodec over an empty stream, nobody calling
InitCodec ==
    /\ wire = [chunks |-> <<>>, closed |-> FALSE]
    /\ codec = [writeMu |-> 0, readMu |-> 0, pos |-> 1]
    /\ wr = [w \in Writers |-> [pc |-> "idle", data |-> None, result |-> ""]]
    /\ rd = [r \in Readers |-> [pc |-> "idle", length |-> 0, result |-> None]]
    /\ sent = <<>>
    /\ received = <<>>

\* No ValidateSubdomain and no Unregister call yet
InitVal == validated = None /\ lastUnregister = None

\* The streams the client may accept and the WebSocket requests the proxy
\* may serve
MaxStreams == 3
MaxUpgrades == 2
StreamWorkers == 1..MaxStreams
Upgrades == 1..MaxUpgrades

\* No stream accepted by the client, no WebSocket request at the proxy
InitWk ==
    /\ hs = [w \in StreamWorkers |->
                [pc |-> "idle", header |-> FALSE, notified |-> <<>>,
                 closed |-> FALSE]]
    /\ ws = [u \in Upgrades |->
                [pc |-> "idle", toStream |-> "idle", toCaller |-> "idle",
                 callerGone |-> FALSE, streamEnded |-> FALSE,
                 clientConnClosed |-> FALSE, streamClosed |-> FALSE]]

InitExt ==
    /\ InitPx /\ InitPool /\ InitRc(DefaultReconnect) /\ InitTun /\ InitCodec
    /\ InitVal
    /\ InitWk

InitCp ==
    /\ cpSessions = {}
    /\ cancelled = FALSE
    /\ stopPending = {}
    /\ pc = [c \in Conns |-> "idle"]
    /\ request = [c \in Conns |-> None]
    /\ statuses = [c \in Conns |-> <<>>]
    /\ reply = [c \in Conns |-> None]
    /\ state = [c \in Conns |-> "none"]
    /\ sessTunnels = [c \in Conns |-> EmptyMap]
    /\ muxClosed = [c \in Conns |-> FALSE]
    /\ connClosed = [c \in Conns |-> FALSE]
    /\ idle = [c \in Conns |-> FALSE]

RegistryInit ==
    /\ regTunnels = EmptyMap
    /\ regSessions = {}
    /\ owner \in [OwnedKeys -> Tokens \cup {NoOwner}]
    /\ token \in [Conns -> Tokens]
    /\ lastCall = None
    /\ InitCp
    /\ InitExt

\* registry.Register(session, tunnels)
RegisterCall(sid, tcs) ==
    LET r == Register(regTunnels, regSessions, sid, token[sid], owner, tcs)
    IN  /\ regTunnels' = r.tunnels
        /\ regSessions' = r.sessions
        /\ lastCall' = [sid |-> sid, tunnels |-> tcs, results |-> r.results,
                        repeat |-> /\ lastCall # None
                                   /\ lastCall.sid = sid
                                   /\ lastCall.tunnels = tcs,
                        preTunnels |-> regTunnels,
                        preSessions |-> regSessions,
                        preResults |-> IF lastCall # None
                                       THEN lastCall.results ELSE <<>>]
        /\ UNCHANGED <<owner, token>>
        /\ UNCHANGED cpVars
    /\ lastUnregister' = None
    /\ UNCHANGED nonRegistryVars

\* registry.Unregister(sessionID)
UnregisterCall(sid) ==
    LET r == Unregister(regTunnels, regSessions, sid)
    IN  /\ regTunnels' = r.tunnels
        /\ regSessions' = r.sessions
        /\ lastCall' = None
        /\ lastUnregister' = [sid |-> sid, preTunnels |-> regTunnels,
                              preSessions |-> regSessions,
                              registered |-> lastCall]
        /\ UNCHANGED <<owner, token>>
        /\ UNCHANGED cpVars
    /\ UNCHANGED nonRegistryVars

\* registry.UnregisterTunnel(sessionID, subdomain)
UnregisterTunnelCall(sid, sub) ==
    LET r == UnregisterTunnel(regTunnels, sid, sub)
    IN  /\ regTunnels' = r.tunnels
        /\ lastCall' = None
        /\ UNCHANGED <<regSessions, owner, token>>
        /\ UNCHANGED cpVars
    /\ lastUnregister' = None
    /\ UNCHANGED nonRegistryVars

\* The database changes the owner of a subdomain (ReserveSubdomain, or a
\* row removed, or a query starting / ceasing to fail).
OwnerChange(k, o) ==
    /\ owner[k] # o
    /\ owner' = [owner EXCEPT ![k] = o]
    /\ lastCall' = None
    /\ UNCHANGED <<regTunnels, regSessions, token>>
    /\ UNCHANGED cpVars
    /\ lastUnregister' = None
    /\ UNCHANGED nonRegistryVars

RegistryNext ==
    \/ \E sid \in Conns, tcs \in TunnelLists : RegisterCall(sid, tcs)
    \/ \E sid \in Conns : UnregisterCall(sid)
    \/ \E sid \in Conns, sub \in Subdomains : UnregisterTunnelCall(sid, sub)
    \/ \E k \in OwnedKeys, o \in Tokens \cup {NoOwner} : OwnerChange(k, o)

RegistrySpec == RegistryInit /\ [][RegistryNext]_vars

----------------------------------------------------------------------------
(* Handshake requests *)

ProtocolVersion == 1
MinSupportedVersion == 1

\* Limits.MaxTunnelsPerConnection (DefaultServerConfig)
MaxTunnelsPerConnection == 10

\* Tokens the Authenticator accepts
ValidTokens == Tokens

\* A token for which the Authenticator returns an error
AuthErrorTokens == {"err"}

\* Authenticator.Validate: the pair (valid, err)
AuthValidate(tok) ==
    [valid |-> tok \in ValidTokens, err |-> tok \in AuthErrorTokens]

Handshake(tok, tcs) ==
    [Type |-> "handshake", DecodeOk |-> TRUE, Version |-> ProtocolVersion,
     Token |-> tok, Tunnels |-> tcs]

GoodRequests ==
    { Handshake("t1", <<TunnelConfig(web, 3000)>>),
      Handshake("t2", <<TunnelConfig(WebMx, 3001), TunnelConfig(docs, 3002)>>),
      Handshake("t1", <<TunnelConfig(admin, 8080)>>),
      Handshake("t2", <<TunnelConfig(ab, 3003), TunnelConfig(web, 3004)>>) }

BadRequests ==
    { [Handshake("t1", <<TunnelConfig(web, 3000)>>) EXCEPT !.Type = "ping"],
      Handshake("bad", <<TunnelConfig(web, 3000)>>),
      Handshake("t1", [i \in 1..(MaxTunnelsPerConnection + 1) |->
                          TunnelConfig(web, 3000)]) }

Requests == GoodRequests \cup BadRequests

\* TunnelConfig.Validate
TunnelConfigValidate(tc) ==
    /\ tc.Subdomain # <<>>
    /\ tc.LocalPort > 0 /\ tc.LocalPort <= 65535
    /\ tc.Protocol \in {"http", "tcp"}

\* HandshakeRequest.Validate
HandshakeValidate(hr) ==
    /\ hr.Version >= MinSupportedVersion
    /\ hr.Token # ""
    /\ Len(hr.Tunnels) # 0
    /\ \A i \in 1..Len(hr.Tunnels) : TunnelConfigValidate(hr.Tunnels[i])

\* protocol.IsVersionSupported
IsVersionSupported(v) == v >= MinSupportedVersion /\ v <= ProtocolVersion

\* The checks with the tunnel limit tested before the token
HandshakeCheckLimitFirst(req) ==
    IF req.Type # "handshake" THEN "PROTOCOL_ERROR"
    ELSE IF ~req.DecodeOk THEN "PROTOCOL_ERROR"
    ELSE IF ~HandshakeValidate(req) THEN "PROTOCOL_ERROR"
    ELSE IF ~IsVersionSupported(req.Version) THEN "PROTOCOL_ERROR"
    ELSE IF Len(req.Tunnels) > MaxTunnelsPerConnection
         THEN "TUNNEL_LIMIT_REACHED"
    ELSE IF AuthValidate(req.Token).err THEN "UNAUTHORIZED"
    ELSE IF ~AuthValidate(req.Token).valid THEN "UNAUTHORIZED"
    ELSE NoError

\* The checks of handleConnection before the session is created: the error
\* code of the first one that fails, NoError when all pass.
HandshakeCheck(req) ==
    IF req.Type # "handshake" THEN "PROTOCOL_ERROR"
    ELSE IF ~req.DecodeOk THEN "PROTOCOL_ERROR"
    ELSE IF ~HandshakeValidate(req) THEN "PROTOCOL_ERROR"
    ELSE IF ~IsVersionSupported(req.Version) THEN "PROTOCOL_ERROR"
    ELSE IF AuthValidate(req.Token).err THEN "UNAUTHORIZED"
    ELSE IF ~AuthValidate(req.Token).valid THEN "UNAUTHORIZED"
    ELSE IF Len(req.Tunnels) > MaxTunnelsPerConnection
         THEN "TUNNEL_LIMIT_REACHED"
    ELSE NoError

\* hasActiveTunnel
HasActiveTunnel(sts) == \E i \in 1..Len(sts) : sts[i].Status = "active"

\* The subdomain Session.RegisterTunnel files a tunnel under
SessionTunnelKey(tc) == tc.Subdomain

\* The loop "Track registered tunnels in session" of handleConnection
RECURSIVE TrackTunnels(_, _, _, _)
TrackTunnels(m, tcs, sts, i) ==
    IF i > Len(tcs) THEN m
    ELSE TrackTunnels(IF sts[i].Status = "active"
                      THEN (SessionTunnelKey(tcs[i]) :> tcs[i]) @@ m
                      ELSE m,
                      tcs, sts, i + 1)

----------------------------------------------------------------------------
(* Spec: the control plane *)

Init ==
    /\ regTunnels = EmptyMap
    /\ regSessions = {}
    /\ owner \in [OwnedKeys -> Tokens \cup {NoOwner}]
    /\ token = [c \in Conns |-> ""]
    /\ lastCall = None
    /\ InitCp
    /\ InitExt

\* acceptLoop hands a connection to handleConnection, which creates the
\* multiplexer, accepts the handshake stream, reads the first envelope req
\* and finds a check before registration to fail: sendHandshakeError, then
\* the stream, the multiplexer and the connection are closed.  Everything a
\* handler does before registry.Register is local to its connection.
Reject(c, req) ==
    /\ ~cancelled
    /\ pc[c] = "idle"
    /\ HandshakeCheck(req) # NoError
    /\ request' = [request EXCEPT ![c] = req]
    /\ reply' = [reply EXCEPT ![c] =
                    [Success |-> FALSE, ErrorCode |-> HandshakeCheck(req),
                     Tunnels |-> <<>>]]
    /\ muxClosed' = [muxClosed EXCEPT ![c] = TRUE]
    /\ connClosed' = [connClosed EXCEPT ![c] = TRUE]
    /\ pc' = [pc EXCEPT ![c] = "returned"]
    /\ UNCHANGED <<cpSessions, cancelled, stopPending, statuses,
                   state, sessTunnels, idle>>
    /\ UNCHANGED regVars
    /\ UNCHANGED extVars

\* The same for an envelope req that passes the checks: NewSessionWithMux
\* and registry.Register
RegisterStep(c, req) ==
    /\ ~cancelled
    /\ pc[c] = "idle"
    /\ HandshakeCheck(req) = NoError
    /\ request' = [request EXCEPT ![c] = req]
    /\ LET r == Register(regTunnels, regSessions, c, req.Token, owner,
                         req.Tunnels)
       IN  /\ regTunnels' = r.tunnels
           /\ regSessions' = r.sessions
           /\ statuses' = [statuses EXCEPT ![c] = r.results]
    /\ token' = [token EXCEPT ![c] = req.Token]
    /\ state' = [state EXCEPT ![c] = "connecting"]
    /\ pc' = [pc EXCEPT ![c] = "track"]
    /\ UNCHANGED <<owner, lastCall, cpSessions, cancelled, stopPending,
                   reply, sessTunnels, muxClosed, connClosed, idle>>
    /\ UNCHANGED extVars

\* session.RegisterTunnel for every tunnel whose status is active
Track(c) ==
    /\ pc[c] = "track"
    /\ sessTunnels' = [sessTunnels EXCEPT ![c] =
            TrackTunnels(sessTunnels[c], request[c].Tunnels, statuses[c], 1)]
    /\ pc' = [pc EXCEPT ![c] = "respond"]
    /\ UNCHANGED <<cpSessions, cancelled, stopPending, request, statuses,
                   reply, state, muxClosed, connClosed, idle>>
    /\ UNCHANGED regVars
    /\ UNCHANGED extVars

\* Session.Close called by the handler: the compare-and-swap from active to
\* closing and s.cancel(); when the swap fails Close returns at once and the
\* handler goes on to position next.
HandlerClose(c, closing, next) ==
    IF state[c] = "active"
    THEN /\ state' = [state EXCEPT ![c] = "closing"]
         /\ pc' = [pc EXCEPT ![c] = closing]
    ELSE /\ state' = state
         /\ pc' = [pc EXCEPT ![c] = next]

\* No tunnel is active: the failure response, stream.Close, session.Close
RespondFailure(c) ==
    /\ pc[c] = "respond"
    /\ ~HasActiveTunnel(statuses[c])
    /\ reply' = [reply EXCEPT ![c] =
                    [Success |-> FALSE, ErrorCode |-> "",
                     Tunnels |-> statuses[c]]]
    /\ HandlerClose(c, "closeFail", "returned")
    /\ UNCHANGED <<cpSessions, cancelled, stopPending, request, statuses,
                   sessTunnels, muxClosed, connClosed, idle>>
    /\ UNCHANGED regVars
    /\ UNCHANGED extVars

\* The success response is written to the handshake stream
SendSuccess(c) ==
    /\ pc[c] = "respond"
    /\ HasActiveTunnel(statuses[c])
    /\ ~muxClosed[c]
    /\ reply' = [reply EXCEPT ![c] =
                    [Success |-> TRUE, ErrorCode |-> "",
                     Tunnels |-> statuses[c]]]
    /\ pc' = [pc EXCEPT ![c] = "store"]
    /\ UNCHANGED <<cpSessions, cancelled, stopPending, request, statuses,
                   state, sessTunnels, muxClosed, connClosed, idle>>
    /\ UNCHANGED regVars
    /\ UNCHANGED extVars

\* Writing the success response fails: registry.Unregister, stream.Close,
\* session.Close
SendFails(c) ==
    /\ pc[c] = "respond"
    /\ HasActiveTunnel(statuses[c])
    /\ muxClosed[c]
    /\ LET r == Unregister(regTunnels, regSessions, c)
       IN  /\ regTunnels' = r.tunnels
           /\ regSessions' = r.sessions
    /\ HandlerClose(c, "closeFail", "returned")
    /\ UNCHANGED <<owner, token, lastCall, cpSessions, cancelled, stopPending,
                   request, statuses, reply, sessTunnels, muxClosed,
                   connClosed, idle>>
    /\ UNCHANGED extVars

\* stream.Close and cp.sessions[session.ID] = session
Store(c) ==
    /\ pc[c] = "store"
    /\ cpSessions' = cpSessions \cup {c}
    /\ pc' = [pc EXCEPT ![c] = "activate"]
    /\ UNCHANGED <<cancelled, stopPending, request, statuses, reply, state,
                   sessTunnels, muxClosed, connClosed, idle>>
    /\ UNCHANGED regVars
    /\ UNCHANGED extVars

\* session.SetState(SessionStateActive)
SetStateActive(c) ==
    /\ pc[c] = "activate"
    /\ state' = [state EXCEPT ![c] = "active"]
    /\ pc' = [pc EXCEPT ![c] = "supervise"]
    /\ UNCHANGED <<cpSessions, cancelled, stopPending, request, statuses,
                   reply, sessTunnels, muxClosed, connClosed, idle>>
    /\ UNCHANGED regVars
    /\ UNCHANGED extVars

\* handleSession returns (control plane cancelled, session context done, or
\* a tick that finds the multiplexer closed or the session idle) and its
\* deferred session.Close runs.
SuperviseExit(c) ==
    /\ pc[c] = "supervise"
    /\ \/ cancelled
       \/ state[c] \in {"closing", "closed"}
       \/ muxClosed[c]
       \/ idle[c]
    /\ HandlerClose(c, "closeSession", "cleanup")
    /\ UNCHANGED <<cpSessions, cancelled, stopPending, request, statuses,
                   reply, sessTunnels, muxClosed, connClosed, idle>>
    /\ UNCHANGED regVars
    /\ UNCHANGED extVars

\* The rest of Session.Close in the goroutine that won the swap: the
\* multiplexer and the connection are closed and the state becomes closed.
CloseFinish(c) ==
    /\ state[c] = "closing"
    /\ muxClosed' = [muxClosed EXCEPT ![c] = TRUE]
    /\ connClosed' = [connClosed EXCEPT ![c] = TRUE]
    /\ state' = [state EXCEPT ![c] = "closed"]
    /\ pc' = [pc EXCEPT ![c] =
                 CASE pc[c] = "closeSession" -> "cleanup"
                   [] pc[c] = "closeFail" -> "returned"
                   [] OTHER -> pc[c]]
    /\ UNCHANGED <<cpSessions, cancelled, stopPending, request, statuses,
                   reply, sessTunnels, idle>>
    /\ UNCHANGED regVars
    /\ UNCHANGED extVars

\* delete(cp.sessions, session.ID)
Cleanup(c) ==
    /\ pc[c] = "cleanup"
    /\ cpSessions' = cpSessions \ {c}
    /\ pc' = [pc EXCEPT ![c] = "unregister"]
    /\ UNCHANGED <<cancelled, stopPending, request, statuses, reply, state,
                   sessTunnels, muxClosed, connClosed, idle>>
    /\ UNCHANGED regVars
    /\ UNCHANGED extVars

\* cp.registry.Unregister(session.ID) at the end of handleConnection
UnregisterStep(c) ==
    /\ pc[c] = "unregister"
    /\ LET r == Unregister(regTunnels, regSessions, c)
       IN  /\ regTunnels' = r.tunnels
           /\ regSessions' = r.sessions
    /\ pc' = [pc EXCEPT ![c] = "returned"]
    /\ UNCHANGED <<owner, token, lastCall, cpSessions, cancelled, stopPending,
                   request, statuses, reply, state, sessTunnels, muxClosed,
                   connClosed, idle>>
    /\ UNCHANGED extVars

\* ControlPlane.Stop: one Close goroutine per stored session, then cancel
Stop ==
    /\ ~cancelled
    /\ stopPending' = cpSessions
    /\ cancelled' = TRUE
    /\ UNCHANGED <<cpSessions, pc, request, statuses, reply, state,
                   sessTunnels, muxClosed, connClosed, idle>>
    /\ UNCHANGED regVars
    /\ UNCHANGED extVars

\* A Close that stores closing without the compare-and-swap
StopCloseWithoutSwap(c) ==
    /\ c \in stopPending
    /\ stopPending' = stopPending \ {c}
    /\ state' = [state EXCEPT ![c] = "closing"]
    /\ UNCHANGED <<cpSessions, cancelled, pc, request, statuses, reply,
                   sessTunnels, muxClosed, connClosed, idle>>
    /\ UNCHANGED regVars
    /\ UNCHANGED extVars

\* A goroutine of Stop calls s.Close()
StopClose(c) ==
    /\ c \in stopPending
    /\ stopPending' = stopPending \ {c}
    /\ state' = [state EXCEPT ![c] =
                    IF state[c] = "active" THEN "closing" ELSE state[c]]
    /\ UNCHANGED <<cpSessions, cancelled, pc, request, statuses, reply,
                   sessTunnels, muxClosed, connClosed, idle>>
    /\ UNCHANGED regVars
    /\ UNCHANGED extVars

\* HTTPProxy.ServeHTTP up to ControlPlane.ProxyRequest for the tunnel k:
\* the session must be active and its multiplexer open for the stream to
\* open, and a stream that opens updates lastActivity.
ProxyRequest(k) ==
    /\ k \in DOMAIN regTunnels
    /\ LET s == regTunnels[k].Session
       IN  idle' = IF state[s] = "active" /\ ~muxClosed[s]
                   THEN [idle EXCEPT ![s] = FALSE]
                   ELSE idle
    /\ UNCHANGED <<cpSessions, cancelled, stopPending, pc, request, statuses,
                   reply, state, sessTunnels, muxClosed, connClosed>>
    /\ UNCHANGED regVars
    /\ UNCHANGED extVars

\* The client drops the connection: the multiplexer reports closed.  The
\* flag is read when the response is written, by the supervision tick and
\* by OpenStream; a drop at an earlier position is seen at the next of them.
PeerDrop(c) ==
    /\ pc[c] \in {"respond", "supervise"}
    /\ ~muxClosed[c]
    /\ muxClosed' = [muxClosed EXCEPT ![c] = TRUE]
    /\ UNCHANGED <<cpSessions, cancelled, stopPending, pc, request, statuses,
                   reply, state, sessTunnels, connClosed, idle>>
    /\ UNCHANGED regVars
    /\ UNCHANGED extVars

\* Time passes without activity until IdleDuration exceeds IdleTimeout.
\* Only the supervision loop reads the idle duration.
IdleElapses(c) ==
    /\ pc[c] = "supervise"
    /\ ~idle[c]
    /\ idle' = [idle EXCEPT ![c] = TRUE]
    /\ UNCHANGED <<cpSessions, cancelled, stopPending, pc, request, statuses,
                   reply, state, sessTunnels, muxClosed, connClosed>>
    /\ UNCHANGED regVars
    /\ UNCHANGED extVars

\* A connection arrives and its handler runs up to registry.Register
Connect(c) ==
    \/ \E req \in Requests : Reject(c, req)
    \/ \E req \in Requests : RegisterStep(c, req)

\* The later steps of handleConnection for connection c
Handler(c) ==
    \/ Track(c)
    \/ RespondFailure(c)
    \/ SendSuccess(c)
    \/ SendFails(c)
    \/ Store(c)
    \/ SetStateActive(c)
    \/ SuperviseExit(c)
    \/ Cleanup(c)
    \/ UnregisterStep(c)

Next ==
    \/ \E c \in Conns : Connect(c)
    \/ \E c \in Conns : Handler(c)
    \/ \E c \in Conns : CloseFinish(c)
    \/ Stop
    \/ \E c \in Conns : StopClose(c)
    \/ \E k \in {RegisterKey(s) : s \in Subdomains} : ProxyRequest(k)
    \/ \E c \in Conns : PeerDrop(c)
    \/ \E c \in Conns : IdleElapses(c)

Spec == Init /\ [][Next]_vars

----------------------------------------------------------------------------
(* HandshakeSpec: the checks before registration, over first envelopes that
   fail any mix of them.  The checks read nothing but the envelope and the
   configuration, so one connection shows them all. *)

HandshakeTunnelLists ==
    { <<>>,
      <<TunnelConfig(web, 3000)>>,
      <<TunnelConfig(web, 0)>>,
      <<[TunnelConfig(docs, 3002) EXCEPT !.Protocol = "udp"]>>,
      [i \in 1..(MaxTunnelsPerConnection + 1) |-> TunnelConfig(web, 3000)] }

HandshakeInputs ==
    [Type : {"handshake", "ping"},
     DecodeOk : BOOLEAN,
     Version : {MinSupportedVersion - 1, ProtocolVersion, ProtocolVersion + 1},
     Token : {"", "t1", "bad", "err"},
     Tunnels : HandshakeTunnelLists]

HandshakeNext ==
    \/ \E req \in HandshakeInputs : Reject(1, req)
    \/ \E req \in HandshakeInputs : RegisterStep(1, req)

HandshakeSpec == Init /\ [][HandshakeNext]_vars

\* The handler goroutines, the Close goroutines and the supervision tick
\* are scheduled; the peer, the clock, Stop and new connections are not.
FairSpec ==
    /\ Spec
    /\ \A c \in Conns : WF_vars(Handler(c))
    /\ \A c \in Conns : WF_vars(CloseFinish(c))
    /\ \A c \in Conns : WF_vars(StopClose(c))

----------------------------------------------------------------------------
(* The HTTP proxy: routing *)

\* Registry.domain, the base domain of the public URLs
domain == <<"t",".","i","o">>

\* strings.Index: the first position of ch in s, 0 when there is none
IndexOf(s, ch) ==
    IF \E i \in 1..Len(s) : s[i] = ch
    THEN CHOOSE i \in 1..Len(s) :
            s[i] = ch /\ \A j \in 1..(i - 1) : s[j] # ch
    ELSE 0

\* strings.HasSuffix
HasSuffix(s, suf) ==
    /\ Len(s) >= Len(suf)
    /\ SubSeq(s, Len(s) - Len(suf) + 1, Len(s)) = suf

\* strings.TrimSuffix
TrimSuffix(s, suf) ==
    IF HasSuffix(s, suf) THEN SubSeq(s, 1, Len(s) - Len(suf)) ELSE s

\* strings.TrimPrefix
TrimPrefix(s, pre) ==
    IF Len(s) >= Len(pre) /\ SubSeq(s, 1, Len(pre)) = pre
    THEN SubSeq(s, Len(pre) + 1, Len(s))
    ELSE s

\* Registry.LookupByHost: drop the port, lowercase, strip "." + domain
LookupByHost(tunnels, host) ==
    LET idx == IndexOf(host, ":")
        noPort == IF idx # 0 THEN SubSeq(host, 1, idx - 1) ELSE host
        lower == ToLower(noPort)
        suffix == <<".">> \o domain
    IN  IF ~HasSuffix(lower, suffix) THEN None
        ELSE Lookup(tunnels, TrimSuffix(lower, suffix))

\* HTTPProxy.lookupByPath: the entry of the first path segment and the
\* request path afterwards, rewritten only when the entry is found
lookupByPath(tunnels, urlPath) ==
    IF urlPath = <<>> \/ urlPath = <<"/">>
    THEN [entry |-> None, path |-> urlPath]
    ELSE LET path == TrimPrefix(urlPath, <<"/">>)
             idx == IndexOf(path, "/")
             first == IF idx = 0 THEN path ELSE SubSeq(path, 1, idx - 1)
             entry == Lookup(tunnels, ToLower(first))
         IN  IF entry = None
             THEN [entry |-> None, path |-> urlPath]
             ELSE [entry |-> entry,
                   path |-> IF idx # 0
                            THEN <<"/">> \o SubSeq(path, idx + 1, Len(path))
                            ELSE <<"/">>]

\* The lookups with the X-Tunnel-Subdomain header consulted before the path
ResolveHeaderBeforePath(tunnels, in) ==
    LET byHost == LookupByHost(tunnels, in.Host)
        byPath == lookupByPath(tunnels, in.Path)
        byHeader == IF in.Header # <<>> THEN Lookup(tunnels, in.Header)
                    ELSE None
    IN  IF byHost # None
        THEN [entry |-> byHost, via |-> "host", path |-> in.Path]
        ELSE IF byHeader # None
        THEN [entry |-> byHeader, via |-> "header", path |-> in.Path]
        ELSE IF byPath.entry # None
        THEN [entry |-> byPath.entry, via |-> "path", path |-> byPath.path]
        ELSE [entry |-> None, via |-> "", path |-> in.Path]

\* The three lookups of handleRequest: by host, then by path, then by header
Resolve(tunnels, in) ==
    LET byHost == LookupByHost(tunnels, in.Host)
        byPath == lookupByPath(tunnels, in.Path)
        byHeader == IF in.Header # <<>> THEN Lookup(tunnels, in.Header)
                    ELSE None
    IN  IF byHost # None
        THEN [entry |-> byHost, via |-> "host", path |-> in.Path]
        ELSE IF byPath.entry # None
        THEN [entry |-> byPath.entry, via |-> "path", path |-> byPath.path]
        ELSE IF byHeader # None
        THEN [entry |-> byHeader, via |-> "header", path |-> in.Path]
        ELSE [entry |-> None, via |-> "", path |-> in.Path]

\* Hosts, paths and X-Tunnel-Subdomain headers of the requests explored
no == <<"n","o","p","e">>

Hosts ==
    { web \o <<".">> \o domain,
      WebMx \o <<".">> \o domain \o <<":","8","0">>,
      no \o <<".">> \o domain,
      domain,
      <<"x",".","c","o">> }

Paths ==
    { <<>>,
      <<"/">>,
      <<"/">> \o web \o <<"/","u">>,
      <<"/">> \o WebMx,
      <<"/">> \o docs \o <<"/">>,
      <<"/">> \o no \o <<"/","u">> }

Headers == { <<>>, docs, WebMx, no }

\* What the client writes back on the stream of a request
Upstreams == {"200", "500", "garbage"}

HttpRequest(host, path, header, up) ==
    [Host |-> host, Path |-> path, Header |-> header, Upstream |-> up]

RoutingInputs ==
    {HttpRequest(h, p, x, "200") : h \in Hosts, p \in Paths, x \in Headers}

----------------------------------------------------------------------------
(* The HTTP proxy: one request *)

\* Two handshakes have been answered with success: connection 1 asked for
\* web, connection 2 for Web (taken) and docs.  Handler 1 supervises its
\* session; handler 2 does too or has yet to call SetState.
EstablishedInit ==
    LET own == [k \in OwnedKeys |-> NoOwner]
        req1 == Handshake("t1", <<TunnelConfig(web, 3000)>>)
        req2 == Handshake("t2", <<TunnelConfig(WebMx, 3001),
                                  TunnelConfig(docs, 3002)>>)
        r1 == Register(EmptyMap, {}, 1, "t1", own, req1.Tunnels)
        r2 == Register(r1.tunnels, r1.sessions, 2, "t2", own, req2.Tunnels)
        On(c, a, b, other) == IF c = 1 THEN a ELSE IF c = 2 THEN b ELSE other
        Ok(sts) == [Success |-> TRUE, ErrorCode |-> "", Tunnels |-> sts]
    IN  /\ MaxConns >= 2
        /\ regTunnels = r2.tunnels
        /\ regSessions = r2.sessions
        /\ owner = own
        /\ token = [c \in Conns |-> On(c, "t1", "t2", "")]
        /\ lastCall = None
        /\ cpSessions = {1, 2}
        /\ cancelled = FALSE
        /\ stopPending = {}
        /\ \E p2 \in {"activate", "supervise"} :
              /\ pc = [c \in Conns |-> On(c, "supervise", p2, "idle")]
              /\ state = [c \in Conns |->
                            On(c, "active",
                               IF p2 = "supervise" THEN "active"
                               ELSE "connecting", "none")]
        /\ request = [c \in Conns |-> On(c, req1, req2, None)]
        /\ statuses = [c \in Conns |-> On(c, r1.results, r2.results, <<>>)]
        /\ reply = [c \in Conns |->
                       On(c, Ok(r1.results), Ok(r2.results), None)]
        /\ sessTunnels = [c \in Conns |->
                On(c, TrackTunnels(EmptyMap, req1.Tunnels, r1.results, 1),
                      TrackTunnels(EmptyMap, req2.Tunnels, r2.results, 1),
                      EmptyMap)]
        /\ muxClosed = [c \in Conns |-> FALSE]
        /\ connClosed = [c \in Conns |-> FALSE]
        /\ idle = [c \in Conns |-> FALSE]
        /\ InitExt

\* handleRequest finishes: the status the caller gets and who wrote it
PxDone(q, st, who) ==
    px' = [px EXCEPT ![q].pc = "done", ![q].status = st, ![q].by = who]

\* The stream of handleRequest call q
PxStream(q) == <<"px", q>>

\* stream.Close()
CloseStream(id) == [streams EXCEPT ![id].closed = TRUE]

\* The status net/http sends when a handler returns without writing
ImplicitStatus == 200

\* handleRequest for the request in: the lookups, then the IsActive check
PxResolve(q, in) ==
    /\ px[q].pc = "idle"
    /\ LET r == Resolve(regTunnels, in)
       IN  IF r.entry = None
           THEN px' = [px EXCEPT ![q].pc = "done", ![q].input = in,
                                 ![q].path = r.path,
                                 ![q].status = 404, ![q].by = "lookup"]
           ELSE IF state[r.entry.Session] # "active"
           THEN px' = [px EXCEPT ![q].pc = "done", ![q].input = in,
                                 ![q].entry = r.entry, ![q].via = r.via,
                                 ![q].path = r.path,
                                 ![q].status = 503, ![q].by = "inactive"]
           ELSE px' = [px EXCEPT ![q].pc = "open", ![q].input = in,
                                 ![q].entry = r.entry, ![q].via = r.via,
                                 ![q].path = r.path]
    /\ UNCHANGED <<metrics, streams, idle>>
    /\ UNCHANGED <<cpSessions, cancelled, stopPending, pc, request, statuses,
                   reply, state, sessTunnels, muxClosed, connClosed>>
    /\ UNCHANGED <<regVars, bcVars, poolVars, restVars>>

\* ControlPlane.ProxyRequest up to Session.OpenStream
PxOpen(q) ==
    /\ px[q].pc = "open"
    /\ LET s == px[q].entry.Session
       IN  IF state[s] # "active"
           THEN /\ PxDone(q, 502, "notActive")
                /\ UNCHANGED <<metrics, streams, idle>>
           ELSE IF muxClosed[s]
           THEN /\ PxDone(q, 502, "open")
                /\ metrics' = [metrics EXCEPT ![s].Errors = @ + 1]
                /\ UNCHANGED <<streams, idle>>
           ELSE /\ px' = [px EXCEPT ![q].pc = "header"]
                /\ metrics' = [metrics EXCEPT ![s].StreamsOpened = @ + 1]
                /\ streams' = (PxStream(q) :>
                                  [session |-> s, frames |-> <<>>,
                                   closed |-> FALSE, reset |-> FALSE]) @@ streams
                /\ idle' = [idle EXCEPT ![s] = FALSE]
    /\ UNCHANGED <<cpSessions, cancelled, stopPending, pc, request, statuses,
                   reply, state, sessTunnels, muxClosed, connClosed>>
    /\ UNCHANGED <<regVars, bcVars, poolVars, restVars>>

\* The same with the request counted before the header is written
PxHeaderCountsFirst(q) ==
    /\ px[q].pc = "header"
    /\ LET s == px[q].entry.Session
       IN  /\ metrics' = [metrics EXCEPT ![s].RequestsHandled = @ + 1]
           /\ IF muxClosed[s] \/ streams[PxStream(q)].reset
              THEN /\ PxDone(q, 502, "header")
                   /\ streams' = CloseStream(PxStream(q))
              ELSE /\ px' = [px EXCEPT ![q].pc = "forward",
                                       ![q].gotStream = TRUE]
                   /\ streams' = [streams EXCEPT ![PxStream(q)].frames =
                          Append(@, [kind |-> "stream_header",
                                     Subdomain |-> px[q].entry.Subdomain,
                                     LocalPort |-> px[q].entry.LocalPort])]
    /\ UNCHANGED <<cpSessions, cancelled, stopPending, pc, request, statuses,
                   reply, state, sessTunnels, muxClosed, connClosed, idle>>
    /\ UNCHANGED <<regVars, bcVars, poolVars, restVars>>

\* OpenStreamWithHeader writes the stream header; ProxyRequest counts the
\* request when that succeeded
PxHeader(q) ==
    /\ px[q].pc = "header"
    /\ LET s == px[q].entry.Session
       IN  IF muxClosed[s] \/ streams[PxStream(q)].reset
           THEN /\ PxDone(q, 502, "header")
                /\ streams' = CloseStream(PxStream(q))
                /\ UNCHANGED metrics
           ELSE /\ px' = [px EXCEPT ![q].pc = "forward",
                                    ![q].gotStream = TRUE]
                /\ streams' = [streams EXCEPT ![PxStream(q)].frames =
                       Append(@, [kind |-> "stream_header",
                                  Subdomain |-> px[q].entry.Subdomain,
                                  LocalPort |-> px[q].entry.LocalPort])]
                /\ metrics' = [metrics EXCEPT ![s].RequestsHandled = @ + 1]
    /\ UNCHANGED <<cpSessions, cancelled, stopPending, pc, request, statuses,
                   reply, state, sessTunnels, muxClosed, connClosed, idle>>
    /\ UNCHANGED <<regVars, bcVars, poolVars, restVars>>

\* forwardRequest writes the request onto the stream
PxForward(q) ==
    /\ px[q].pc = "forward"
    /\ LET s == px[q].entry.Session
       IN  IF muxClosed[s] \/ streams[PxStream(q)].reset
           THEN /\ PxDone(q, 502, "forward")
                /\ streams' = CloseStream(PxStream(q))
           ELSE /\ px' = [px EXCEPT ![q].pc = "response"]
                /\ streams' = [streams EXCEPT ![PxStream(q)].frames =
                       Append(@, [kind |-> "http_request",
                                  Path |-> px[q].path])]
    /\ UNCHANGED <<metrics, idle>>
    /\ UNCHANGED <<cpSessions, cancelled, stopPending, pc, request, statuses,
                   reply, state, sessTunnels, muxClosed, connClosed>>
    /\ UNCHANGED <<regVars, bcVars, poolVars, restVars>>

\* forwardResponse: http.ReadResponse fails when the stream is gone or the
\* client wrote no HTTP response, and handleRequest then returns without
\* writing; otherwise the client's status is passed on.
PxResponse(q) ==
    /\ px[q].pc = "response"
    /\ LET s == px[q].entry.Session
       IN  IF \/ muxClosed[s]
              \/ streams[PxStream(q)].reset
              \/ px[q].input.Upstream = "garbage"
           THEN PxDone(q, ImplicitStatus, "implicit")
           ELSE PxDone(q, IF px[q].input.Upstream = "200" THEN 200 ELSE 500,
                       "upstream")
    /\ streams' = CloseStream(PxStream(q))
    /\ UNCHANGED <<metrics, idle>>
    /\ UNCHANGED <<cpSessions, cancelled, stopPending, pc, request, statuses,
                   reply, state, sessTunnels, muxClosed, connClosed>>
    /\ UNCHANGED <<regVars, bcVars, poolVars, restVars>>

\* The client resets the stream of request q
StreamReset(q) ==
    /\ px[q].pc \in {"header", "forward", "response"}
    /\ ~streams[PxStream(q)].reset
    /\ ~muxClosed[px[q].entry.Session]
    /\ streams' = [streams EXCEPT ![PxStream(q)].reset = TRUE]
    /\ UNCHANGED <<metrics, px, idle>>
    /\ UNCHANGED <<cpSessions, cancelled, stopPending, pc, request, statuses,
                   reply, state, sessTunnels, muxClosed, connClosed>>
    /\ UNCHANGED <<regVars, bcVars, poolVars, restVars>>

\* Requests proxied while the sessions come and go
ProxyInputs ==
    {HttpRequest(web \o <<".">> \o domain, <<"/">>, <<>>, u) :
        u \in Upstreams}
    \cup {HttpRequest(<<"x",".","c","o">>, <<"/">> \o docs \o <<"/">>,
                      <<>>, "200"),
          HttpRequest(no \o <<".">> \o domain, <<"/">>, <<>>, "200")}

ProxyNext ==
    \/ \E q \in Reqs, in \in ProxyInputs : PxResolve(q, in)
    \/ \E q \in Reqs : PxOpen(q)
    \/ \E q \in Reqs : PxHeader(q)
    \/ \E q \in Reqs : PxForward(q)
    \/ \E q \in Reqs : PxResponse(q)
    \/ \E q \in Reqs : StreamReset(q)
    \/ \E c \in Conns : SetStateActive(c)
    \/ \E c \in Conns : PeerDrop(c)
    \/ \E c \in Conns : IdleElapses(c)
    \/ \E c \in Conns : SuperviseExit(c)
    \/ \E c \in Conns : CloseFinish(c)
    \/ \E c \in Conns : Cleanup(c)
    \/ \E c \in Conns : UnregisterStep(c)

ProxySpec == EstablishedInit /\ [][ProxyNext]_vars

\* The lookups alone, over every host, path and header explored
RoutingNext == \E in \in RoutingInputs : PxResolve(1, in)

RoutingSpec == EstablishedInit /\ [][RoutingNext]_vars

----------------------------------------------------------------------------
(* Server.Stop: BroadcastShutdown, then ControlPlane.Stop *)

\* The grace period Server.Run stops the server with, in milliseconds
GracePeriodMs == 30000

\* The stream the broadcast worker of session c opens
BcStream(c) == <<"bc", c>>

\* BroadcastShutdown copies cp.sessions and starts one goroutine per
\* session; it does not wait for them.
BroadcastShutdown(grace) ==
    /\ ~bcast.called
    /\ ~cancelled
    /\ bcast' = [called |-> TRUE, pending |-> cpSessions,
                 active |-> {c \in cpSessions : state[c] = "active"},
                 grace |-> grace]
    /\ UNCHANGED <<metrics, streams, px>>
    /\ UNCHANGED <<regVars, cpVars, poolVars, restVars>>

\* A broadcast goroutine calls s.OpenStream()
BcOpen(c) ==
    /\ c \in bcast.pending
    /\ bcast' = [bcast EXCEPT !.pending = @ \ {c}]
    /\ IF state[c] # "active"
       THEN UNCHANGED <<metrics, streams, idle>>
       ELSE IF muxClosed[c]
       THEN /\ metrics' = [metrics EXCEPT ![c].Errors = @ + 1]
            /\ UNCHANGED <<streams, idle>>
       ELSE /\ metrics' = [metrics EXCEPT ![c].StreamsOpened = @ + 1]
            /\ streams' = (BcStream(c) :>
                              [session |-> c, frames |-> <<>>,
                               closed |-> FALSE, reset |-> FALSE]) @@ streams
            /\ idle' = [idle EXCEPT ![c] = FALSE]
    /\ UNCHANGED <<cpSessions, cancelled, stopPending, pc, request, statuses,
                   reply, state, sessTunnels, muxClosed, connClosed>>
    /\ UNCHANGED <<px, regVars, poolVars, restVars>>

\* The goroutine writes the shutdown envelope with codec.SendShutdown,
\* ignoring an error, and its deferred stream.Close() runs.
BcSend(c) ==
    /\ BcStream(c) \in DOMAIN streams
    /\ ~streams[BcStream(c)].closed
    /\ streams' = [streams EXCEPT
          ![BcStream(c)].closed = TRUE,
          ![BcStream(c)].frames =
              IF muxClosed[c] THEN @
              ELSE Append(@, [kind |-> "envelope", Type |-> "shutdown",
                              GracePeriodMs |-> bcast.grace])]
    /\ UNCHANGED <<metrics, px, bcast>>
    /\ UNCHANGED <<regVars, cpVars, poolVars, restVars>>

\* Server.Stop goes on to ControlPlane.Stop
StopAfterBroadcast == bcast.called /\ Stop

ShutdownNext ==
    \/ BroadcastShutdown(GracePeriodMs)
    \/ \E c \in Conns : BcOpen(c)
    \/ \E c \in Conns : BcSend(c)
    \/ StopAfterBroadcast
    \/ \E c \in Conns : StopClose(c)
    \/ \E c \in Conns : SetStateActive(c)
    \/ \E c \in Conns : SuperviseExit(c)
    \/ \E c \in Conns : CloseFinish(c)
    \/ \E c \in Conns : Cleanup(c)
    \/ \E c \in Conns : UnregisterStep(c)

ShutdownSpec == EstablishedInit /\ [][ShutdownNext]_vars

----------------------------------------------------------------------------
(* The client's connection pool *)

\* PoolConfig, in clock ticks and connections
MaxIdleConns == 2
MaxOpenConns == 2
ConnMaxLifetime == 2
ConnMaxIdleTime == 1

\* The clock stops at MaxTime, and at most MaxDials connections are dialled
MaxTime == 3
MaxDials == 3

\* waitCount is followed up to MaxWaits refusals
MaxWaits == 2
MaxPending == 2

PoolConns == 1..Len(dialled)

\* What the pool does not touch
nonPoolVars == <<regVars, cpVars, pxVars, bcVars, restVars>>

Held == {c \in PoolConns : dialled[c].status = "held"}

\* isValidConnection: the two age checks on the entry's fields, then the
\* one-millisecond read of one byte: it returns a byte when the local
\* service has sent some, fails with EOF when the service has closed the
\* connection, and times out otherwise
isValidConnection(e) ==
    /\ ~(ConnMaxLifetime > 0 /\ now - e.createdAt > ConnMaxLifetime)
    /\ ~(ConnMaxIdleTime > 0 /\ now - e.lastUsed > ConnMaxIdleTime)
    /\ dialled[e.conn].pending > 0 \/ ~dialled[e.conn].dead

\* What is left to read on a connection after isValidConnection accepted
\* it: the probe's buffer, with the byte it read, is dropped
AfterProbe(pending) == IF pending > 0 THEN pending - 1 ELSE 0

\* The loop of Get: pop entries from the end of the idle list until one is
\* valid; the others are stale.
RECURSIVE PopValid(_)
PopValid(idleList) ==
    IF idleList = <<>>
    THEN [hit |-> None, idle |-> <<>>, stale |-> {}]
    ELSE LET e == idleList[Len(idleList)]
             rest == SubSeq(idleList, 1, Len(idleList) - 1)
         IN  IF isValidConnection(e)
             THEN [hit |-> e, idle |-> rest, stale |-> {}]
             ELSE [PopValid(rest) EXCEPT !.stale = @ \cup {e.conn}]

\* The limit tested with > in place of >=
ExhaustedOffByOne(open) == MaxOpenConns > 0 /\ open > MaxOpenConns

\* The limit on open connections, as Get tests it
Exhausted(open) == MaxOpenConns > 0 /\ open >= MaxOpenConns

\* Get, up to the point where it returns or releases the lock to dial
Get ==
    /\ IF poolClosed
       THEN /\ lastGet' = [err |-> "pool is closed"]
            /\ UNCHANGED <<poolIdle, numOpen, poolClosed, now, dialled,
                           waitCount>>
       ELSE LET r == PopValid(poolIdle)
                open == numOpen - Cardinality(r.stale)
                swept == [c \in PoolConns |->
                            IF c \in r.stale
                            THEN [dialled[c] EXCEPT !.status = "closed"]
                            ELSE dialled[c]]
            IN  /\ poolIdle' = r.idle
                /\ UNCHANGED <<poolClosed, now>>
                /\ IF r.hit # None
                   THEN /\ numOpen' = open
                        /\ dialled' = [swept EXCEPT
                                         ![r.hit.conn].status = "held",
                                         ![r.hit.conn].pending = AfterProbe(@)]
                        /\ lastGet' = [conn |-> r.hit.conn, reused |-> TRUE,
                                       createdAt |-> r.hit.createdAt,
                                       lastUsed |-> r.hit.lastUsed, at |-> now,
                                       sent |-> dialled[r.hit.conn].pending,
                                       readable |->
                                         AfterProbe(dialled[r.hit.conn].pending)]
                        /\ UNCHANGED waitCount
                   ELSE IF Exhausted(open)
                   THEN /\ waitCount < MaxWaits
                        /\ waitCount' = waitCount + 1
                        /\ numOpen' = open
                        /\ dialled' = swept
                        /\ lastGet' = [err |-> "connection pool exhausted"]
                   ELSE /\ Len(dialled) < MaxDials
                        /\ numOpen' = open + 1
                        /\ dialled' = Append(swept, [at |-> now,
                                                     status |-> "dialling",
                                                     dead |-> FALSE,
                                                     pending |-> 0])
                        /\ UNCHANGED <<lastGet, waitCount>>
    /\ UNCHANGED nonPoolVars

\* net.DialTimeout returns a connection
GetDialled(c) ==
    /\ c \in PoolConns
    /\ dialled[c].status = "dialling"
    /\ dialled' = [dialled EXCEPT ![c].status = "held", ![c].at = now]
    /\ lastGet' = [conn |-> c, reused |-> FALSE, createdAt |-> now,
                   lastUsed |-> now, at |-> now, sent |-> 0, readable |-> 0]
    /\ UNCHANGED <<poolIdle, numOpen, poolClosed, now, waitCount>>
    /\ UNCHANGED nonPoolVars

\* net.DialTimeout fails
GetDialFails(c) ==
    /\ c \in PoolConns
    /\ dialled[c].status = "dialling"
    /\ dialled' = [dialled EXCEPT ![c].status = "failed"]
    /\ numOpen' = numOpen - 1
    /\ lastGet' = [err |-> "dial"]
    /\ UNCHANGED <<poolIdle, poolClosed, now, waitCount>>
    /\ UNCHANGED nonPoolVars

\* Put as the source has it: the new entry's createdAt is the time of the
\* Put.  The holder has read whatever was left on the connection.
Put(c) ==
    /\ c \in Held
    /\ IF poolClosed \/ Len(poolIdle) >= MaxIdleConns
       THEN /\ dialled' = [dialled EXCEPT ![c].status = "closed",
                                          ![c].pending = 0]
            /\ numOpen' = numOpen - 1
            /\ UNCHANGED poolIdle
       ELSE /\ dialled' = [dialled EXCEPT ![c].status = "idle",
                                          ![c].pending = 0]
            /\ poolIdle' = Append(poolIdle, [conn |-> c, createdAt |-> now,
                                             lastUsed |-> now])
            /\ UNCHANGED numOpen
    /\ UNCHANGED <<poolClosed, now, lastGet, waitCount>>
    /\ UNCHANGED nonPoolVars

\* ConnectionPool.Close
PoolClose ==
    /\ ~poolClosed
    /\ poolClosed' = TRUE
    /\ dialled' = [c \in PoolConns |->
                     IF dialled[c].status = "idle"
                     THEN [dialled[c] EXCEPT !.status = "closed"]
                     ELSE dialled[c]]
    /\ poolIdle' = <<>>
    /\ numOpen' = 0
    /\ UNCHANGED <<now, lastGet, waitCount>>
    /\ UNCHANGED nonPoolVars

\* What cleanIdleConnections drops
Stale(e) ==
    \/ ConnMaxIdleTime > 0 /\ now - e.lastUsed > ConnMaxIdleTime
    \/ ConnMaxLifetime > 0 /\ now - e.createdAt > ConnMaxLifetime

\* The cleaner's tick
cleanIdleConnections ==
    /\ ~poolClosed
    /\ \E i \in 1..Len(poolIdle) : Stale(poolIdle[i])
    /\ LET newIdle == SelectSeq(poolIdle, LAMBDA e : ~Stale(e))
           dropped == {poolIdle[i].conn : i \in {j \in 1..Len(poolIdle) :
                                                    Stale(poolIdle[j])}}
       IN  /\ poolIdle' = newIdle
           /\ numOpen' = numOpen - Cardinality(dropped)
           /\ dialled' = [c \in PoolConns |->
                            IF c \in dropped
                            THEN [dialled[c] EXCEPT !.status = "closed"]
                            ELSE dialled[c]]
    /\ UNCHANGED <<poolClosed, now, lastGet, waitCount>>
    /\ UNCHANGED nonPoolVars

\* The local service closes an idle connection
LocalCloses(c) ==
    /\ c \in PoolConns
    /\ dialled[c].status = "idle"
    /\ ~dialled[c].dead
    /\ dialled' = [dialled EXCEPT ![c].dead = TRUE]
    /\ UNCHANGED <<poolIdle, numOpen, poolClosed, now, lastGet, waitCount>>
    /\ UNCHANGED nonPoolVars

\* The local service sends a byte on an idle connection
LocalSends(c) ==
    /\ c \in PoolConns
    /\ dialled[c].status = "idle"
    /\ ~dialled[c].dead
    /\ dialled[c].pending < MaxPending
    /\ dialled' = [dialled EXCEPT ![c].pending = @ + 1]
    /\ UNCHANGED <<poolIdle, numOpen, poolClosed, now, lastGet, waitCount>>
    /\ UNCHANGED nonPoolVars

\* Time passes
Tick ==
    /\ now < MaxTime
    /\ now' = now + 1
    /\ UNCHANGED <<poolIdle, numOpen, poolClosed, dialled, lastGet, waitCount>>
    /\ UNCHANGED nonPoolVars

PoolNext ==
    \/ Get
    \/ \E c \in 1..MaxDials : GetDialled(c)
    \/ \E c \in 1..MaxDials : GetDialFails(c)
    \/ \E c \in 1..MaxDials : Put(c)
    \/ PoolClose
    \/ cleanIdleConnections
    \/ \E c \in 1..MaxDials : LocalCloses(c)
    \/ Tick

PoolSpec == Init /\ [][PoolNext]_vars

\* The pool with a local service that sends on idle connections, at one
\* instant
ProbeNext ==
    \/ Get
    \/ \E c \in 1..MaxDials : GetDialled(c)
    \/ \E c \in 1..MaxDials : GetDialFails(c)
    \/ \E c \in 1..MaxDials : Put(c)
    \/ PoolClose
    \/ \E c \in 1..MaxDials : LocalCloses(c)
    \/ \E c \in 1..MaxDials : LocalSends(c)

ProbeSpec == Init /\ [][ProbeNext]_vars

----------------------------------------------------------------------------
(* The client's reconnector *)

\* NextDelay is followed for MaxCalls calls without a Reset
MaxCalls == 6

\* The value NextDelay returns to stop the reconnection
StopSentinel == -1

\* The configurations examined: with and without a limit on the attempts,
\* a whole and a fractional multiplier; delays in clock ticks
ReconnectConfigs ==
    {[Enabled |-> TRUE, InitialDelay |-> 4, MaxDelay |-> 20,
      Multiplier |-> m, MaxAttempts |-> k] :
        m \in {Ratio(2, 1), Ratio(3, 2)}, k \in {0, 2}}

RECURSIVE Pow(_, _)
Pow(b, e) == IF e = 0 THEN 1 ELSE b * Pow(b, e - 1)

\* The limit reached one call early
ExceededAtMax(cfg, attempts) ==
    cfg.MaxAttempts > 0 /\ attempts >= cfg.MaxAttempts

\* The test on the attempts made after NextDelay has counted this one
Exceeded(cfg, attempts) == cfg.MaxAttempts > 0 /\ attempts > cfg.MaxAttempts

\* The exponential delay without its cap
BaseDelayUncapped(cfg, attempts) ==
    Ratio(cfg.InitialDelay * Pow(cfg.Multiplier.num, attempts - 1),
          Pow(cfg.Multiplier.den, attempts - 1))

\* baseDelay: InitialDelay * Multiplier^(attempts-1), capped at MaxDelay
BaseDelay(cfg, attempts) ==
    LET raw == Ratio(cfg.InitialDelay * Pow(cfg.Multiplier.num, attempts - 1),
                     Pow(cfg.Multiplier.den, attempts - 1))
    IN  IF raw.num > cfg.MaxDelay * raw.den
        THEN Ratio(cfg.MaxDelay, 1)
        ELSE raw

\* time.Duration(baseDelay + jitter) with jitter = baseDelay * 0.25 *
\* rand.Float64(): the float sum lies in [base, 1.25 * base) and the
\* conversion to a Duration drops its fraction.
Delays(base) ==
    {k \in (base.num \div base.den)..((5 * base.num) \div (4 * base.den)) :
        \/ k = base.num \div base.den
        \/ 4 * base.den * k < 5 * base.num}

\* NextDelay and Reset as they act on the reconnector
NextDelay ==
    /\ rc.attempts < MaxCalls
    /\ rcCalls' = rcCalls + 1
    /\ LET attempts == rc.attempts + 1
       IN  IF Exceeded(rcConfig, attempts)
           THEN /\ rc' = [rc EXCEPT !.attempts = attempts]
                /\ lastDelay' = [n |-> rcCalls + 1, delay |-> StopSentinel]
           ELSE \E delay \in Delays(BaseDelay(rcConfig, attempts)) :
                /\ rc' = [attempts |-> attempts, currentDelay |-> delay]
                /\ lastDelay' = [n |-> rcCalls + 1, delay |-> delay]
    /\ UNCHANGED rcConfig

Reset ==
    /\ rc' = [attempts |-> 0, currentDelay |-> rcConfig.InitialDelay]
    /\ rcCalls' = 0
    /\ UNCHANGED <<rcConfig, lastDelay>>

\* A caller other than the tunnel calls them
CallNextDelay == NextDelay /\ UNCHANGED <<nonClientVars, tunVars>>

CallReset == Reset /\ UNCHANGED <<nonClientVars, tunVars>>

\* Everything but the reconnector as it is at start-up
ClientInit ==
    /\ regTunnels = EmptyMap
    /\ regSessions = {}
    /\ owner = [k \in OwnedKeys |-> NoOwner]
    /\ token = [c \in Conns |-> ""]
    /\ lastCall = None
    /\ InitCp
    /\ InitPx
    /\ InitPool
    /\ InitCodec
    /\ InitVal
    /\ InitWk

ReconnectInit ==
    ClientInit /\ InitTun /\ \E cfg \in ReconnectConfigs : InitRc(cfg)

ReconnectNext == CallNextDelay \/ CallReset

ReconnectSpec == ReconnectInit /\ [][ReconnectNext]_vars

----------------------------------------------------------------------------
(* ValidateSpec: ValidateSubdomain called with names of every shape *)

\* A name made of a first character and n copies of another
Fill(head, ch, n) == <<head>> \o [i \in 1..n |-> ch]

Admin == <<"A","d","m","i","n">>
MyApp == <<"M","y","A","p","p">>

\* Names around both length limits, with every class of character in the
\* first and in the later positions, and the reserved names
ValidateInputs ==
    { Fill(head, ch, n) :
        head \in {"a", "M", "-", "1", "_"},
        ch \in {"b", "Z", "0", "-", "_", "."},
        n \in {0, RegexMinTail - 1, RegexMinTail,
               RegexMaxTail - 1, RegexMaxTail, RegexMaxTail + 1} }
    \cup {admin, Admin, MyApp, ab, web, WebMx, <<>>}

\* registry.ValidateSubdomain(subdomain)
ValidateCall(subdomain) ==
    /\ validated' = [subdomain |-> subdomain,
                     err |-> ValidateSubdomain(subdomain)]
    /\ UNCHANGED nonValVars

ValidateInit == ClientInit /\ InitRc(DefaultReconnect) /\ InitTun

ValidateNext == \E subdomain \in ValidateInputs : ValidateCall(subdomain)

ValidateSpec == ValidateInit /\ [][ValidateNext]_vars

----------------------------------------------------------------------------
(* The client's stream workers: Tunnel.handleStream *)

\* acceptLoop accepts a stream and starts handleStream on it
HsAccept(w) ==
    /\ hs[w].pc = "idle"
    /\ hs' = [hs EXCEPT ![w].pc = "header"]
    /\ UNCHANGED <<ws, nonWkVars>>

\* ReadStreamHeader fails: the worker returns and its deferred
\* stream.Close runs
HsHeaderFails(w) ==
    /\ hs[w].pc = "header"
    /\ hs' = [hs EXCEPT ![w].pc = "returned", ![w].closed = TRUE]
    /\ UNCHANGED <<ws, nonWkVars>>

\* ReadStreamHeader succeeds: notifyRequest(info) with no status yet
HsHeaderRead(w) ==
    /\ hs[w].pc = "header"
    /\ hs' = [hs EXCEPT ![w].pc = "forward", ![w].header = TRUE,
                        ![w].notified = Append(@, 0)]
    /\ UNCHANGED <<ws, nonWkVars>>

\* router.Forward fails: status 502, notifyRequest(info), return
HsForwardFails(w) ==
    /\ hs[w].pc = "forward"
    /\ hs' = [hs EXCEPT ![w].pc = "returned", ![w].closed = TRUE,
                        ![w].notified = Append(@, 502)]
    /\ UNCHANGED <<ws, nonWkVars>>

\* router.Forward succeeds: info.Status = 200 is set and the worker
\* returns
HsForwardDone(w) ==
    /\ hs[w].pc = "forward"
    /\ hs' = [hs EXCEPT ![w].pc = "returned", ![w].closed = TRUE]
    /\ UNCHANGED <<ws, nonWkVars>>

StreamInit == ClientInit /\ InitRc(DefaultReconnect) /\ InitTun

StreamNext ==
    \E w \in StreamWorkers :
        \/ HsAccept(w)
        \/ HsHeaderFails(w)
        \/ HsHeaderRead(w)
        \/ HsForwardFails(w)
        \/ HsForwardDone(w)

StreamSpec == StreamInit /\ [][StreamNext]_vars

----------------------------------------------------------------------------
(* The proxy's WebSocket path: HTTPProxy.handleWebSocket *)

\* handleRequest has opened the stream and calls handleWebSocket; the
\* response writer cannot be hijacked or Hijack fails: 500 and return, and
\* handleRequest's deferred stream.Close runs
WsHijackFails(u) ==
    /\ ws[u].pc = "idle"
    /\ ws' = [ws EXCEPT ![u].pc = "returned", ![u].streamClosed = TRUE]
    /\ UNCHANGED <<hs, nonWkVars>>

\* Hijack succeeds
WsHijack(u) ==
    /\ ws[u].pc = "idle"
    /\ ws' = [ws EXCEPT ![u].pc = "forward"]
    /\ UNCHANGED <<hs, nonWkVars>>

\* forwardRequest fails: return; the deferred clientConn.Close and
\* stream.Close run
WsForwardFails(u) ==
    /\ ws[u].pc = "forward"
    /\ ws[u].streamEnded
    /\ ws' = [ws EXCEPT ![u].pc = "returned", ![u].clientConnClosed = TRUE,
                        ![u].streamClosed = TRUE]
    /\ UNCHANGED <<hs, nonWkVars>>

\* forwardRequest succeeds: both copy goroutines start and the handler
\* calls wg.Wait
WsForward(u) ==
    /\ ws[u].pc = "forward"
    /\ ~ws[u].streamEnded
    /\ ws' = [ws EXCEPT ![u].pc = "wait", ![u].toStream = "running",
                        ![u].toCaller = "running"]
    /\ UNCHANGED <<hs, nonWkVars>>

\* io.Copy(stream, clientConn) returns: its read of the caller's connection
\* ends because the caller has closed it
WsToStreamEof(u) ==
    /\ ws[u].toStream = "running"
    /\ ws[u].callerGone
    /\ ws' = [ws EXCEPT ![u].toStream = "done"]
    /\ UNCHANGED <<hs, nonWkVars>>

\* io.Copy(stream, clientConn) returns: the caller sent bytes and writing
\* them to the ended stream fails
WsToStreamWriteFails(u) ==
    /\ ws[u].toStream = "running"
    /\ ws[u].streamEnded
    /\ ~ws[u].callerGone
    /\ ws' = [ws EXCEPT ![u].toStream = "done"]
    /\ UNCHANGED <<hs, nonWkVars>>

\* io.Copy(clientConn, stream) returns: its read of the stream ends because
\* the tunnel side has closed it
WsToCallerEof(u) ==
    /\ ws[u].toCaller = "running"
    /\ ws[u].streamEnded
    /\ ws' = [ws EXCEPT ![u].toCaller = "done"]
    /\ UNCHANGED <<hs, nonWkVars>>

\* io.Copy(clientConn, stream) returns: the tunnel side sent bytes and
\* writing them to the caller's closed connection fails
WsToCallerWriteFails(u) ==
    /\ ws[u].toCaller = "running"
    /\ ws[u].callerGone
    /\ ~ws[u].streamEnded
    /\ ws' = [ws EXCEPT ![u].toCaller = "done"]
    /\ UNCHANGED <<hs, nonWkVars>>

\* wg.Wait returns, then the deferred clientConn.Close and stream.Close
WsWait(u) ==
    /\ ws[u].pc = "wait"
    /\ ws[u].toStream = "done" /\ ws[u].toCaller = "done"
    /\ ws' = [ws EXCEPT ![u].pc = "returned", ![u].clientConnClosed = TRUE,
                        ![u].streamClosed = TRUE]
    /\ UNCHANGED <<hs, nonWkVars>>

\* The caller closes its connection
CallerCloses(u) ==
    /\ ws[u].pc \in {"forward", "wait"}
    /\ ~ws[u].callerGone
    /\ ws' = [ws EXCEPT ![u].callerGone = TRUE]
    /\ UNCHANGED <<hs, nonWkVars>>

\* The tunnel client closes the stream, or the session ends
StreamEnds(u) ==
    /\ ws[u].pc \in {"forward", "wait"}
    /\ ~ws[u].streamEnded
    /\ ws' = [ws EXCEPT ![u].streamEnded = TRUE]
    /\ UNCHANGED <<hs, nonWkVars>>

WsInit == ClientInit /\ InitRc(DefaultReconnect) /\ InitTun

WsNext ==
    \E u \in Upgrades :
        \/ WsHijackFails(u)
        \/ WsHijack(u)
        \/ WsForwardFails(u)
        \/ WsForward(u)
        \/ WsToStreamEof(u)
        \/ WsToStreamWriteFails(u)
        \/ WsToCallerEof(u)
        \/ WsToCallerWriteFails(u)
        \/ WsWait(u)
        \/ CallerCloses(u)
        \/ StreamEnds(u)

WsSpec == WsInit /\ [][WsNext]_vars

\* The handler and the copy goroutines are scheduled; when the caller or
\* the tunnel side closes or sends is up to them.
FairWsSpec ==
    /\ WsSpec
    /\ \A u \in Upgrades :
        /\ WF_vars(WsHijack(u) \/ WsHijackFails(u))
        /\ WF_vars(WsForward(u) \/ WsForwardFails(u))
        /\ WF_vars(WsToStreamEof(u))
        /\ WF_vars(WsToCallerEof(u))
        /\ WF_vars(WsWait(u))

----------------------------------------------------------------------------
(* The client's tunnel: the accept loop and reconnection *)

\* The reconnect settings examined: disabled, unlimited, and two attempts
TunnelConfigs ==
    {DefaultReconnect,
     [DefaultReconnect EXCEPT !.Enabled = FALSE],
     [DefaultReconnect EXCEPT !.MaxAttempts = 2]}

\* Run after its first Connect: connected, or disconnected with the
\* failure tolerated because reconnection is enabled; acceptLoop starts.
TunnelInit ==
    /\ ClientInit
    /\ \E cfg \in TunnelConfigs :
        /\ InitRc(cfg)
        /\ \/ tun = [state |-> "connected", mux |-> "open",
                      ctxDone |-> FALSE, pc |-> "loop"]
           \/ /\ cfg.Enabled
              /\ tun = [state |-> "disconnected", mux |-> "nil",
                        ctxDone |-> FALSE, pc |-> "loop"]

\* The top of acceptLoop's loop: leave when the context is done; call
\* handleReconnect, which sets the state and asks for the delay, when
\* disconnected with a reconnector; otherwise go on to AcceptStream.
TunLoop ==
    /\ tun.pc = "loop"
    /\ IF tun.ctxDone
       THEN /\ tun' = [tun EXCEPT !.pc = "exit"]
            /\ UNCHANGED rcVars
       ELSE IF tun.state = "disconnected" /\ rcConfig.Enabled
       THEN /\ NextDelay
            /\ tun' = [tun EXCEPT !.state = "reconnecting", !.pc = "wait"]
       ELSE /\ tun.mux # "nil"
            /\ tun' = [tun EXCEPT !.pc = "accept"]
            /\ UNCHANGED rcVars
    /\ UNCHANGED nonClientVars

\* AcceptStream returns an error
TunAcceptFails ==
    /\ tun.pc = "accept"
    /\ tun.mux = "closed"
    /\ tun' = IF tun.ctxDone THEN [tun EXCEPT !.pc = "exit"]
              ELSE [tun EXCEPT !.state = "disconnected", !.pc = "loop"]
    /\ UNCHANGED <<rcVars, nonClientVars>>

\* handleReconnect: time.After(delay) fires and Connect begins
TunWaitElapsed ==
    /\ tun.pc = "wait"
    /\ tun' = [tun EXCEPT !.state = "connecting", !.pc = "connect"]
    /\ UNCHANGED <<rcVars, nonClientVars>>

\* handleReconnect: the context is done first
TunWaitCancelled ==
    /\ tun.pc = "wait"
    /\ tun.ctxDone
    /\ tun' = [tun EXCEPT !.pc = "loop"]
    /\ UNCHANGED <<rcVars, nonClientVars>>

\* Connect fails at the dial (the multiplexer is left as it was) or at the
\* handshake (the new multiplexer is closed); the server refuses at most
\* MaxCalls - 1 attempts in a row.
ConnectFails ==
    /\ tun.pc = "connect"
    /\ rc.attempts < MaxCalls
    /\ \E m \in {tun.mux, "closed"} :
        tun' = [tun EXCEPT !.state = "disconnected", !.mux = m, !.pc = "loop"]
    /\ UNCHANGED <<rcVars, nonClientVars>>

\* Connect succeeds
ConnectSucceeds ==
    /\ tun.pc = "connect"
    /\ tun' = [tun EXCEPT !.state = "connected", !.mux = "open",
                          !.pc = "reset"]
    /\ UNCHANGED <<rcVars, nonClientVars>>

\* handleReconnect without its call of Reset
TunResetSkipped ==
    /\ tun.pc = "reset"
    /\ tun' = [tun EXCEPT !.pc = "loop"]
    /\ UNCHANGED <<rcVars, nonClientVars>>

\* handleReconnect after a successful Connect
TunReset ==
    /\ tun.pc = "reset"
    /\ Reset
    /\ tun' = [tun EXCEPT !.pc = "loop"]
    /\ UNCHANGED nonClientVars

\* The server or the network closes the multiplexer
MuxCloses ==
    /\ tun.mux = "open"
    /\ ~tun.ctxDone
    /\ tun' = [tun EXCEPT !.mux = "closed"]
    /\ UNCHANGED <<rcVars, nonClientVars>>

\* Tunnel.Close
TunClose ==
    /\ ~tun.ctxDone
    /\ tun' = [tun EXCEPT !.state = "closed", !.ctxDone = TRUE,
                          !.mux = IF @ = "nil" THEN "nil" ELSE "closed"]
    /\ UNCHANGED <<rcVars, nonClientVars>>

TunnelNext ==
    \/ TunLoop
    \/ TunAcceptFails
    \/ TunWaitElapsed
    \/ TunWaitCancelled
    \/ ConnectFails
    \/ ConnectSucceeds
    \/ TunReset
    \/ MuxCloses
    \/ TunClose

TunnelSpec == TunnelInit /\ [][TunnelNext]_vars

\* The accept loop keeps running and Connect returns
FairTunnelSpec ==
    /\ TunnelSpec
    /\ WF_vars(TunLoop)
    /\ WF_vars(TunAcceptFails)
    /\ WF_vars(TunWaitElapsed)
    /\ WF_vars(ConnectFails \/ ConnectSucceeds)
    /\ WF_vars(TunReset)

----------------------------------------------------------------------------
(* The framed codec *)

MaxMessageSize == 65536

\* At most MaxFrames envelopes are accepted by WriteMessage, and
\* ReadMessage is called at most MaxReads times
MaxFrames == 2
MaxReads == 3

MessageTypes ==
    {"handshake", "handshake_response", "add_tunnel", "remove_tunnel",
     "tunnel_update", "ping", "pong", "shutdown", "error"}

\* The number of bytes of each message type
TypeLen ==
    [handshake |-> 9, handshake_response |-> 18, add_tunnel |-> 10,
     remove_tunnel |-> 13, tunnel_update |-> 13, ping |-> 4, pong |-> 4,
     shutdown |-> 8, error |-> 5]

\* A byte that is not valid UTF-8, and the character json.Marshal puts in
\* its place
BadByte == "xFF"
Replacement == "uFFFD"

\* json.Marshal on a string: invalid UTF-8 is replaced
Sanitise(str) ==
    [i \in 1..Len(str) |-> IF str[i] = BadByte THEN Replacement ELSE str[i]]

\* A JSON text is its characters followed by fill more characters that are
\* neither white space nor escaped. The texts the model takes as valid JSON:
JSONValues ==
    {<<"{", "}">>, <<"1">>, <<"n", "u", "l", "l">>, <<"\"", "\"">>,
     <<"\"", "<", "\"">>,
     <<"\"", "\\", "u", "0", "0", "3", "c", "\"">>}

\* json.Compact with escapeHTML, as json.Marshal applies it to a RawMessage:
\* insignificant white space is dropped and < is written as \u003c
RECURSIVE Compact(_)
Compact(body) ==
    IF body = <<>> THEN <<>>
    ELSE IF Head(body) = " " THEN Compact(Tail(body))
    ELSE IF Head(body) = "<"
    THEN <<"\\", "u", "0", "0", "3", "c">> \o Compact(Tail(body))
    ELSE <<Head(body)>> \o Compact(Tail(body))

ValidJSON(body) == SelectSeq(body, LAMBDA ch : ch # " ") \in JSONValues

\* The serialised timestamp, as in 2006-01-02T15:04:05Z
TimestampLen == 20

\* json.Marshal(envelope): a nil Payload is written as null, any other
\* Payload must be valid JSON and is compacted; an empty request_id is left
\* out. size is len(data).
Marshal(env) ==
    IF env.Payload # None /\ ~ValidJSON(env.Payload.body)
    THEN [err |-> TRUE]
    ELSE LET payload == IF env.Payload = None
                        THEN [body |-> <<"n", "u", "l", "l">>, fill |-> 0]
                        ELSE [body |-> Compact(env.Payload.body),
                              fill |-> env.Payload.fill]
             rid == Sanitise(env.RequestID)
         IN  [err |-> FALSE, Type |-> env.Type, RequestID |-> rid,
              Payload |-> payload,
              size |-> 9 + TypeLen[env.Type] + 15 + TimestampLen + 1
                       + (IF rid = <<>> THEN 0 ELSE 15 + Len(rid) + 1)
                       + 11 + Len(payload.body) + payload.fill + 1]

\* json.Unmarshal without the request_id
UnmarshalWithoutRequestID(data) ==
    [Type |-> data.Type, RequestID |-> <<>>, Payload |-> data.Payload]

\* json.Unmarshal(data, &envelope)
Unmarshal(data) ==
    [Type |-> data.Type, RequestID |-> data.RequestID, Payload |-> data.Payload]

\* NewEnvelope: the payload is the output of json.Marshal
NewEnvelope(msgType, requestID, value) ==
    [Type |-> msgType, RequestID |-> requestID,
     Payload |-> [body |-> Compact(value), fill |-> 0]]

\* An error ReadMessage or WriteMessage returns, by its sentinel or message
Err(what) == [err |-> what]

ErrConnectionClosed == Err("connection closed")
ErrInvalidMessage == Err("invalid protocol message")

\* The limit applied one byte early
TooLargeAtLimit(n) == n >= MaxMessageSize

\* The size check of WriteMessage and of ReadMessage
TooLarge(n) == n > MaxMessageSize

\* WriteMessage without the write mutex
WrLockNoMutex(w, env) ==
    /\ wr[w].pc = "idle"
    /\ Len(sent) < MaxFrames
    /\ LET data == Marshal(env)
       IN  IF data.err
           THEN /\ wr' = [wr EXCEPT ![w].result = "failed to marshal envelope"]
                /\ UNCHANGED <<codec, sent>>
           ELSE IF TooLarge(data.size)
           THEN /\ wr' = [wr EXCEPT ![w].result = "message size exceeds maximum"]
                /\ UNCHANGED <<codec, sent>>
           ELSE /\ wr' = [wr EXCEPT ![w] = [pc |-> "prefix", data |-> data,
                                            result |-> ""]]
                /\ sent' = Append(sent, env)
                /\ UNCHANGED codec
    /\ UNCHANGED <<wire, rd, received, nonCodecVars>>

\* WriteMessage: take writeMu, serialise, check the size
WrLock(w, env) ==
    /\ wr[w].pc = "idle"
    /\ codec.writeMu = 0
    /\ Len(sent) < MaxFrames
    /\ LET data == Marshal(env)
       IN  IF data.err
           THEN /\ wr' = [wr EXCEPT ![w].result = "failed to marshal envelope"]
                /\ UNCHANGED <<codec, sent>>
           ELSE IF TooLarge(data.size)
           THEN /\ wr' = [wr EXCEPT ![w].result = "message size exceeds maximum"]
                /\ UNCHANGED <<codec, sent>>
           ELSE /\ wr' = [wr EXCEPT ![w] = [pc |-> "prefix", data |-> data,
                                            result |-> ""]]
                /\ codec' = [codec EXCEPT !.writeMu = w]
                /\ sent' = Append(sent, env)
    /\ UNCHANGED <<wire, rd, received, nonCodecVars>>

\* The mutex a returning WriteMessage releases
Unlocked(w) == [codec EXCEPT !.writeMu = IF @ = w THEN 0 ELSE @]

\* WriteMessage: writer.Write(lengthBuf)
WrPrefix(w) ==
    /\ wr[w].pc = "prefix"
    /\ IF wire.closed
       THEN /\ wr' = [wr EXCEPT ![w].pc = "idle",
                                ![w].result = "failed to write message length"]
            /\ codec' = Unlocked(w)
            /\ UNCHANGED wire
       ELSE /\ wire' = [wire EXCEPT !.chunks =
                           Append(@, [kind |-> "len", n |-> wr[w].data.size,
                                      w |-> w, cut |-> FALSE])]
            /\ wr' = [wr EXCEPT ![w].pc = "payload"]
            /\ UNCHANGED codec
    /\ UNCHANGED <<rd, sent, received, nonCodecVars>>

\* WriteMessage: writer.Write(data), and return
WrPayload(w) ==
    /\ wr[w].pc = "payload"
    /\ IF wire.closed
       THEN /\ wr' = [wr EXCEPT ![w].pc = "idle",
                                ![w].result = "failed to write message payload"]
            /\ UNCHANGED wire
       ELSE /\ wire' = [wire EXCEPT !.chunks =
                           Append(@, [kind |-> "data", n |-> wr[w].data.size,
                                      w |-> w, cut |-> FALSE,
                                      data |-> wr[w].data])]
            /\ wr' = [wr EXCEPT ![w].pc = "idle", ![w].result = "ok"]
    /\ codec' = Unlocked(w)
    /\ UNCHANGED <<rd, sent, received, nonCodecVars>>

\* A peer that does not use WriteMessage sends a frame whose length prefix
\* is n
RawFrame(n) ==
    /\ ~wire.closed
    /\ codec.writeMu = 0
    /\ \A w \in Writers : wr[w].pc = "idle"
    /\ Len(wire.chunks) < 2 * MaxFrames
    /\ wire' = [wire EXCEPT !.chunks =
          @ \o <<[kind |-> "len", n |-> n, w |-> 0, cut |-> FALSE],
                 [kind |-> "data", n |-> n, w |-> 0, cut |-> FALSE,
                  data |-> None]>>]
    /\ UNCHANGED <<codec, wr, rd, sent, received, nonCodecVars>>

\* The stream ends after the bytes written so far
WireClose ==
    /\ ~wire.closed
    /\ wire' = [wire EXCEPT !.closed = TRUE]
    /\ UNCHANGED <<codec, wr, rd, sent, received, nonCodecVars>>

\* The stream ends inside the last buffer written: only some of its bytes,
\* at least one, arrive
WireCut ==
    /\ ~wire.closed
    /\ Len(wire.chunks) >= codec.pos
    /\ wire' = [chunks |-> [wire.chunks EXCEPT ![Len(wire.chunks)].cut = TRUE],
                closed |-> TRUE]
    /\ UNCHANGED <<codec, wr, rd, sent, received, nonCodecVars>>

\* ReadMessage returns result
RdReturn(r, result, consumed) ==
    /\ rd' = [rd EXCEPT ![r] = [pc |-> "idle", length |-> 0,
                                 result |-> result]]
    /\ codec' = [codec EXCEPT !.readMu = IF @ = r THEN 0 ELSE @,
                              !.pos = @ + consumed]
    /\ received' = Append(received, result)

\* ReadMessage: take readMu
RdLock(r) ==
    /\ rd[r].pc = "idle"
    /\ codec.readMu = 0
    /\ Len(received) + Cardinality({x \in Readers : rd[x].pc # "idle"})
         < MaxReads
    /\ rd' = [rd EXCEPT ![r].pc = "prefix"]
    /\ codec' = [codec EXCEPT !.readMu = r]
    /\ UNCHANGED <<wire, wr, sent, received, nonCodecVars>>

\* ReadMessage: io.ReadFull of the length prefix and the checks on it. At
\* the end of the stream ReadFull gives io.EOF when it read nothing and
\* io.ErrUnexpectedEOF when it read some of the four bytes.
RdPrefix(r) ==
    /\ rd[r].pc = "prefix"
    /\ IF codec.pos > Len(wire.chunks)
       THEN /\ wire.closed
            /\ RdReturn(r, ErrConnectionClosed, 0)
       ELSE LET chunk == wire.chunks[codec.pos]
            IN  IF chunk.cut
                THEN RdReturn(r, Err("failed to read message length"), 1)
                ELSE IF chunk.kind # "len"
                THEN RdReturn(r, Err("bytes of a payload read as a length"), 1)
                ELSE IF TooLarge(chunk.n)
                THEN RdReturn(r, Err("message size exceeds maximum"), 1)
                ELSE IF chunk.n = 0
                THEN RdReturn(r, Err("message length cannot be zero"), 1)
                ELSE /\ rd' = [rd EXCEPT ![r].pc = "payload",
                                         ![r].length = chunk.n]
                     /\ codec' = [codec EXCEPT !.pos = @ + 1]
                     /\ UNCHANGED received
    /\ UNCHANGED <<wire, wr, sent, nonCodecVars>>

\* ReadMessage: io.ReadFull of the payload, json.Unmarshal, and return
RdPayload(r) ==
    /\ rd[r].pc = "payload"
    /\ IF codec.pos > Len(wire.chunks)
       THEN /\ wire.closed
            /\ RdReturn(r, Err("failed to read message payload"), 0)
       ELSE LET chunk == wire.chunks[codec.pos]
            IN  IF chunk.cut
                THEN RdReturn(r, Err("failed to read message payload"), 1)
                ELSE IF chunk.kind # "data" \/ chunk.n # rd[r].length
                THEN RdReturn(r, Err("bytes of another frame read as a payload"), 1)
                ELSE IF chunk.data = None
                THEN RdReturn(r, Err("failed to unmarshal envelope"), 1)
                ELSE RdReturn(r, Unmarshal(chunk.data), 1)
    /\ UNCHANGED <<wire, wr, sent, nonCodecVars>>

\* Payloads: as json.Marshal writes them, with white space, with a
\* character json.Marshal escapes, and one that is not JSON
Payload(body) == [body |-> body, fill |-> 0]

\* Envelopes of all nine types as NewEnvelope builds them, and envelopes
\* built directly: with a request_id, with an invalid byte in it, with
\* payloads that are not in json.Marshal's form or not JSON at all
RoundTripEnvelopes ==
    {NewEnvelope(t, <<>>, <<"{", "}">>) : t \in MessageTypes}
    \cup {NewEnvelope("ping", <<"r", "1">>, v) : v \in {<<"1">>, <<"\"", "<", "\"">>}}
    \cup {[Type |-> "ping", RequestID |-> rid, Payload |-> p] :
            rid \in {<<"r", "1">>, <<"r", BadByte>>},
            p \in {Payload(<<"{", " ", "}">>),
                   Payload(<<"\"", "<", "\"">>), Payload(<<>>),
                   Payload(<<"{", "}">>)}}

\* An envelope whose serialised form is size bytes long
Sized(size) ==
    LET e == NewEnvelope("handshake", <<>>, <<"\"", "\"">>)
    IN  [e EXCEPT !.Payload.fill = size - Marshal(e).size]

\* Envelopes at and around the frame limit
LimitEnvelopes ==
    {Sized(n) : n \in {MaxMessageSize - 1, MaxMessageSize, MaxMessageSize + 1}}

\* Length prefixes a peer may send
RawLengths == {0, 1, MaxMessageSize, MaxMessageSize + 1, 2147483647}

\* One writer and one reader
SerialSteps ==
    \/ WrPrefix(1)
    \/ WrPayload(1)
    \/ RdLock(1)
    \/ RdPrefix(1)
    \/ RdPayload(1)

CodecInit == ClientInit /\ InitRc(DefaultReconnect) /\ InitTun

\* Every kind of envelope, written and read back
CodecNext ==
    \/ \E env \in RoundTripEnvelopes : WrLock(1, env)
    \/ SerialSteps
    \/ WireClose

CodecSpec == CodecInit /\ [][CodecNext]_vars

\* Envelopes and length prefixes at and around the frame limit
LimitNext ==
    \/ \E env \in LimitEnvelopes : WrLock(1, env)
    \/ SerialSteps
    \/ \E n \in RawLengths : RawFrame(n)

LimitSpec == CodecInit /\ [][LimitNext]_vars

\* The envelopes concurrent writers send
FramingEnvelopes ==
    {NewEnvelope("ping", <<"r", "1">>, <<"1">>),
     NewEnvelope("shutdown", <<>>, <<"{", "}">>)}

\* Concurrent writers and concurrent readers on one codec
FramingNext ==
    \/ \E w \in Writers, env \in FramingEnvelopes : WrLock(w, env)
    \/ \E w \in Writers : WrPrefix(w)
    \/ \E w \in Writers : WrPayload(w)
    \/ WireClose
    \/ \E r \in Readers : RdLock(r)
    \/ \E r \in Readers : RdPrefix(r)
    \/ \E r \in Readers : RdPayload(r)

FramingSpec == CodecInit /\ [][FramingNext]_vars

\* The stream ends at a frame boundary or inside a frame
EofNext ==
    \/ \E env \in FramingEnvelopes : WrLock(1, env)
    \/ SerialSteps
    \/ WireClose
    \/ WireCut

EofSpec == CodecInit /\ [][EofNext]_vars

----------------------------------------------------------------------------
(* Properties *)

\* The order of the SessionState constants; "none" is a connection that has
\* no session yet
StateRank(st) ==
    CASE st = "none" -> 0
      [] st = "connecting" -> 1
      [] st = "active" -> 2
      [] st = "closing" -> 3
      [] st = "closed" -> 4

LowerKeys == {ToLower(s) : s \in Subdomains}

\* The sessions that hold the lowercased subdomain k in the registry
Holders(k) ==
    {sid \in Conns : \E key \in DOMAIN regTunnels :
        ToLower(key) = k /\ regTunnels[key].Session = sid}

\* The registry entries that point to session c
TunnelsOf(c) == {k \in DOMAIN regTunnels : regTunnels[k].Session = c}

\* Handler c got as far as registry.Register
Registered(c) == request[c] # None /\ HandshakeCheck(request[c]) = NoError

\* Handler c sent the response with success=true
SuccessSent(c) == reply[c] # None /\ reply[c].Success

\* Every tunnel reported active to c is mapped to c in the registry
ActiveTunnelsMapped(c) ==
    \A i \in 1..Len(statuses[c]) :
        statuses[c][i].Status = "active" =>
            /\ statuses[c][i].Subdomain \in DOMAIN regTunnels
            /\ regTunnels[statuses[c][i].Subdomain].Session = c

\* C1 (RegistrySpec): after any sequence of Register, Unregister and
\* UnregisterTunnel calls by any sessions, every lowercased subdomain is held
\* by at most one session.
C1_AtMostOneOwner ==
    \A k \in LowerKeys : Cardinality(Holders(k)) <= 1

\* A Register call was refused a subdomain another session holds
C1_Witness ==
    /\ lastCall # None
    /\ \E i \in 1..Len(lastCall.results) :
          /\ lastCall.results[i].Error = ErrSubdomainTaken
          /\ Cardinality(Holders(lastCall.results[i].Subdomain)) = 1

\* C2 (Spec), as claimed: a handshake answered with success=false leaves
\* nothing of its session in the registry once the handler has returned:
\* no registry.sessions key and no tunnel entry.
C2_FailedHandshakeLeavesRegistry ==
    \A c \in Conns :
        (pc[c] = "returned" /\ reply[c] # None /\ ~reply[c].Success) =>
            (c \notin regSessions /\ TunnelsOf(c) = {})

\* C3 (Spec), as claimed: a session id is a key of registry.sessions if and
\* only if the session's state is active.
C3_RegisteredIffActive ==
    \A c \in Conns : c \in regSessions <=> state[c] = "active"

\* C3 (Spec), amended: every session whose state is active is a key of
\* registry.sessions.
C3_ActiveIsRegistered ==
    \A c \in Conns : state[c] = "active" => c \in regSessions

\* A session is active and registered
C3_Witness ==
    \E c \in Conns : state[c] = "active" /\ c \in regSessions

\* The session of handler c has been torn down, or is being torn down
TornDown(c) ==
    \/ state[c] \in {"closing", "closed"}
    \/ pc[c] \in {"closeSession", "cleanup", "unregister", "returned"}

\* C4 (Spec), as claimed: from the moment the success response has been sent
\* until the session is torn down, the session is in control_plane.sessions
\* with state active and its active tunnels are mapped to it.
C4_FromResponse ==
    \A c \in Conns :
        (SuccessSent(c) /\ ~TornDown(c)) =>
            /\ c \in cpSessions
            /\ state[c] = "active"
            /\ ActiveTunnelsMapped(c)

\* C4 (Spec), amended: after a success response, whenever the session's
\* state is active it is in control_plane.sessions, and from the response
\* until the handler has unregistered the session every tunnel reported
\* active is mapped to it in the registry.
C4_FromActivation ==
    \A c \in Conns :
        SuccessSent(c) =>
            /\ state[c] = "active" => c \in cpSessions
            /\ pc[c] # "returned" => ActiveTunnelsMapped(c)

\* An active session after a success response, while the control plane is
\* stopping and another handshake is in flight
C4_Witness ==
    \E c \in Conns :
        /\ SuccessSent(c) /\ state[c] = "active" /\ c \in cpSessions
        /\ cancelled
        /\ \E d \in Conns \ {c} : pc[d] \in {"track", "respond", "store"}

\* No registry entry and no session map holds session c any more
Removed(c) ==
    /\ c \notin cpSessions
    /\ c \notin regSessions
    /\ TunnelsOf(c) = {}

\* C5 (FairSpec), as claimed, for the closed connection: once the multiplexer
\* of a session has closed, the session is eventually closed and removed
\* from control_plane.sessions, registry.sessions and registry.tunnels.
C5_ClosedConnectionRemoved ==
    \A c \in Conns :
        (muxClosed[c] /\ state[c] # "none")
            ~> (state[c] = "closed" /\ Removed(c))

\* C6 (Spec), as claimed, once the handler has filled the session's tunnel
\* map: every key of registry.tunnels is in the tunnels map of the session
\* its entry points to, and of no other registered session.
C6_RegistryKeyInSessionTunnels ==
    \A k \in DOMAIN regTunnels :
        LET s == regTunnels[k].Session
        IN  pc[s] # "track" =>
                /\ k \in DOMAIN sessTunnels[s]
                /\ \A c \in regSessions \ {s} : k \notin DOMAIN sessTunnels[c]

\* Tunnel i of the last Register call asked for a subdomain that another
\* session held
HeldByOther(i) ==
    LET k == ToLower(lastCall.tunnels[i].Subdomain)
    IN  /\ k \in DOMAIN lastCall.preTunnels
        /\ lastCall.preTunnels[k].Session # lastCall.sid

\* The OwnerChecker names an owner other than the caller of the last call
OwnedByOther(i) ==
    LET o == GetSubdomainOwner(owner, ToLower(lastCall.tunnels[i].Subdomain))
    IN  o # NoOwner /\ o # token[lastCall.sid]

\* C7 (RegistrySpec), as claimed: Register for a subdomain mapped to another
\* session reports SUBDOMAIN_TAKEN and leaves the entry as it was.
C7_AlwaysTaken ==
    lastCall # None =>
        \A i \in 1..Len(lastCall.tunnels) :
            HeldByOther(i) =>
                /\ lastCall.results[i].Status = "error"
                /\ lastCall.results[i].Error = ErrSubdomainTaken
                /\ Lookup(regTunnels, lastCall.tunnels[i].Subdomain)
                     = lastCall.preTunnels[ToLower(lastCall.tunnels[i].Subdomain)]

\* C7 (RegistrySpec), amended: Register for a subdomain mapped to another
\* session reports an error, SUBDOMAIN_RESERVED when the OwnerChecker names
\* an owner other than the caller's token and SUBDOMAIN_TAKEN otherwise, and
\* leaves the entry (session, port, host) as it was.
C7_RefusedLeavesEntry ==
    lastCall # None =>
        \A i \in 1..Len(lastCall.tunnels) :
            HeldByOther(i) =>
                /\ lastCall.results[i].Status = "error"
                /\ lastCall.results[i].Error =
                     IF OwnedByOther(i) THEN ErrSubdomainReserved
                     ELSE ErrSubdomainTaken
                /\ Lookup(regTunnels, lastCall.tunnels[i].Subdomain)
                     = lastCall.preTunnels[ToLower(lastCall.tunnels[i].Subdomain)]

\* A session was refused with SUBDOMAIN_TAKEN a subdomain another holds,
\* asked for with another port
C7_Witness ==
    /\ lastCall # None
    /\ \E i \in 1..Len(lastCall.tunnels) :
          /\ HeldByOther(i)
          /\ lastCall.results[i].Error = ErrSubdomainTaken
          /\ Lookup(regTunnels, lastCall.tunnels[i].Subdomain).LocalPort
               # lastCall.tunnels[i].LocalPort

\* C8 (Spec): the status of every tunnel of a handshake is the status that
\* tunnel gets on its own against the registry the handshake found, whatever
\* happens to the other tunnels of the request; and a response sent after
\* registration has success=true exactly when some status is active.
C8_Independent ==
    /\ [][\A c \in Conns :
            (pc[c] = "idle" /\ pc'[c] = "track") =>
                /\ Len(statuses'[c]) = Len(request'[c].Tunnels)
                /\ \A i \in 1..Len(statuses'[c]) :
                      statuses'[c][i] =
                          RegisterOne(regTunnels, c, request'[c].Token, owner,
                                      request'[c].Tunnels[i]).status]_vars
    /\ [](\A c \in Conns :
            (Registered(c) /\ reply[c] # None) =>
                (reply[c].Success <=> HasActiveTunnel(statuses[c])))

\* A success response after one tunnel was refused and a later one admitted
C8_Witness ==
    \E c \in Conns :
        /\ SuccessSent(c)
        /\ Len(statuses[c]) = 2
        /\ statuses[c][1].Status = "error"
        /\ statuses[c][2].Status = "active"

\* C9 (Spec): the status list of a handshake that reached registration has
\* one entry per requested tunnel, entry i carrying the lowercased subdomain
\* and the local port of tunnel i, and it is the list the response carries.
C9_StatusesAligned ==
    \A c \in Conns :
        Registered(c) =>
            /\ Len(statuses[c]) = Len(request[c].Tunnels)
            /\ \A i \in 1..Len(statuses[c]) :
                  /\ statuses[c][i].Subdomain
                       = ToLower(request[c].Tunnels[i].Subdomain)
                  /\ statuses[c][i].LocalPort = request[c].Tunnels[i].LocalPort
            /\ reply[c] # None => reply[c].Tunnels = statuses[c]

\* A response with a refused and an admitted tunnel, one spelled in mixed case
C9_Witness ==
    \E c \in Conns :
        /\ reply[c] # None
        /\ Len(reply[c].Tunnels) = 2
        /\ \E i, j \in 1..2 :
              /\ reply[c].Tunnels[i].Status = "error"
              /\ reply[c].Tunnels[j].Status = "active"
        /\ request[c].Tunnels[1].Subdomain # reply[c].Tunnels[1].Subdomain

\* C10 (RegistrySpec): a Register call repeated by the same session with the
\* same tunnels, nothing happening in between, leaves registry.tunnels and
\* registry.sessions as the first call left them and reports active every
\* tunnel the first call reported active.
C10_RegisterIdempotent ==
    (lastCall # None /\ lastCall.repeat) =>
        /\ regTunnels = lastCall.preTunnels
        /\ regSessions = lastCall.preSessions
        /\ Len(lastCall.results) = Len(lastCall.preResults)
        /\ \A i \in 1..Len(lastCall.preResults) :
              lastCall.preResults[i].Status = "active" =>
                  lastCall.results[i].Status = "active"

\* A repeated call, one of whose tunnels is active and one refused
C10_Witness ==
    /\ lastCall # None
    /\ lastCall.repeat
    /\ \E i \in 1..Len(lastCall.preResults) :
          lastCall.preResults[i].Status = "active"
    /\ \E i \in 1..Len(lastCall.preResults) :
          lastCall.preResults[i].Status = "error"

\* C11 (Spec): in every step of the handlers, Close goroutines, supervision
\* and shutdown the state of a session stays or moves forward along
\* connecting, active, closing, closed.
C11_StateMonotonic ==
    [][\A c \in Conns : StateRank(state'[c]) >= StateRank(state[c])]_vars

\* A session went through all four states and was closed by the handler
\* before the Close goroutine of Stop ran
C11_Witness ==
    \E c \in Conns :
        /\ SuccessSent(c) /\ state[c] = "closed"
        /\ cancelled /\ c \in stopPending

\* C12 (Spec), as claimed: once a call of Session.Close has returned and no
\* other call is still at work, the session is closed with its multiplexer
\* and its connection closed, whatever state the call found.  Every handler
\* that created a session has called Close when it returns.
C12_CloseClosesFromAnyState ==
    \A c \in Conns :
        (Registered(c) /\ pc[c] = "returned" /\ state[c] # "closing") =>
            /\ state[c] = "closed"
            /\ muxClosed[c]
            /\ connClosed[c]

\* Envelope r fails one of the four checks answered with PROTOCOL_ERROR
ProtocolFails(r) ==
    \/ r.Type # "handshake"
    \/ ~r.DecodeOk
    \/ r.Version < MinSupportedVersion \/ r.Version > ProtocolVersion
    \/ r.Token = ""
    \/ Len(r.Tunnels) = 0
    \/ \E i \in 1..Len(r.Tunnels) : ~TunnelConfigValidate(r.Tunnels[i])

\* C13 (HandshakeSpec): the reply to a first envelope carries the code of
\* the first failing check in the order type, decode, validation, version
\* (PROTOCOL_ERROR), token (UNAUTHORIZED, on false or on an error), tunnel
\* count (TUNNEL_LIMIT_REACHED); an envelope that passes them all is
\* registered.
C13_FirstFailingCheck ==
    \A c \in Conns :
        request[c] # None =>
            LET r == request[c]
                authFails == r.Token \in AuthErrorTokens
                                 \/ r.Token \notin ValidTokens
                limitFails == Len(r.Tunnels) > MaxTunnelsPerConnection
            IN  IF ProtocolFails(r) \/ authFails \/ limitFails
                THEN /\ pc[c] = "returned"
                     /\ ~reply[c].Success
                     /\ reply[c].ErrorCode =
                          IF ProtocolFails(r) THEN "PROTOCOL_ERROR"
                          ELSE IF authFails THEN "UNAUTHORIZED"
                          ELSE "TUNNEL_LIMIT_REACHED"
                ELSE pc[c] = "track" /\ c \in regSessions

\* An envelope with a token the authenticator fails on and too many tunnels
\* was answered UNAUTHORIZED
C13_Witness ==
    \E c \in Conns :
        /\ request[c] # None /\ reply[c] # None
        /\ request[c].Token \in AuthErrorTokens
        /\ Len(request[c].Tunnels) > MaxTunnelsPerConnection
        /\ reply[c].ErrorCode = "UNAUTHORIZED"

\* The requests on session s that ended at one of the steps in where
EndedAt(s, where) ==
    {q \in Reqs : /\ px[q].pc = "done" /\ px[q].entry # None
                  /\ px[q].entry.Session = s /\ px[q].by \in where}

\* C14 (ProxySpec), as claimed: every request that failed at opening its
\* stream or at writing the stream header was answered 502, left its
\* stream (if it had one) closed, and is counted in the error counter of
\* its session.
C14_StreamFailureCounted ==
    \A s \in Conns :
        /\ \A q \in EndedAt(s, {"open", "header"}) :
              /\ px[q].status = 502
              /\ PxStream(q) \in DOMAIN streams => streams[PxStream(q)].closed
        /\ metrics[s].Errors = Cardinality(EndedAt(s, {"open", "header"}))

\* C15 (ProxySpec), as claimed: a request that did not get a response from
\* the client is answered 404 when no tunnel is found, 503 when the session
\* is not active, and 502 when the stream cannot be opened, the request
\* cannot be forwarded or no valid response can be read.
C15_FailureIsErrorStatus ==
    \A q \in Reqs :
        (px[q].pc = "done" /\ px[q].by # "upstream") =>
            px[q].status =
                CASE px[q].by = "lookup" -> 404
                  [] px[q].by = "inactive" -> 503
                  [] OTHER -> 502

\* C16 (RoutingSpec): the tunnel of a request is the one its Host names
\* under the base domain; failing that, the one its first path segment
\* names, and then the path forwarded is the rest of the path (/ when there
\* is none); failing that, the one the X-Tunnel-Subdomain header names.  In
\* every other case the path is the request's own, and the answer is 404
\* only when all three lookups fail.
C16_LookupOrder ==
    \A q \in Reqs :
        px[q].pc # "idle" =>
            LET in == px[q].input
                byHost == LookupByHost(regTunnels, in.Host)
                byPath == lookupByPath(regTunnels, in.Path)
                byHeader == IF in.Header = <<>> THEN None
                            ELSE Lookup(regTunnels, in.Header)
            IN  /\ byHost # None =>
                      /\ px[q].entry = byHost /\ px[q].via = "host"
                /\ (byHost = None /\ byPath.entry # None) =>
                      /\ px[q].entry = byPath.entry /\ px[q].via = "path"
                      /\ px[q].path = byPath.path
                /\ (byHost = None /\ byPath.entry = None
                                  /\ byHeader # None) =>
                      /\ px[q].entry = byHeader /\ px[q].via = "header"
                /\ px[q].via # "path" => px[q].path = in.Path
                /\ px[q].status = 404 <=>
                      (byHost = None /\ byPath.entry = None
                                    /\ byHeader = None)

\* A request whose path names one tunnel and whose header names another
\* went to the tunnel of the path with the path rewritten to /
C16_Witness ==
    \E q \in Reqs :
        /\ px[q].pc # "idle"
        /\ px[q].via = "path"
        /\ px[q].input.Path = <<"/">> \o WebMx
        /\ px[q].input.Header = docs
        /\ px[q].entry.Subdomain = web
        /\ px[q].path = <<"/">>

\* The requests for which ProxyRequest returned a stream of session s
GotStream(s) ==
    {q \in Reqs : px[q].gotStream /\ px[q].entry.Session = s}

\* C17 (ProxySpec): the RequestsHandled counter of a session is the number
\* of ProxyRequest calls on its tunnels that returned a stream, and no step
\* decreases it.
C17_RequestsHandledCounts ==
    /\ [](\A s \in Conns :
            metrics[s].RequestsHandled = Cardinality(GotStream(s)))
    /\ [][\A s \in Conns :
            metrics'[s].RequestsHandled >= metrics[s].RequestsHandled]_vars

\* One request of a session completed with the client's 200 and another
\* got no stream: the counter is 1
C17_Witness ==
    \E s \in Conns :
        /\ metrics[s].RequestsHandled = 1
        /\ \E q \in GotStream(s) :
              px[q].pc = "done" /\ px[q].by = "upstream" /\ px[q].status = 200
        /\ EndedAt(s, {"inactive", "notActive", "open", "header"}) # {}

\* C18 (ShutdownSpec), as claimed: the first frame of every stream the
\* server opened and wrote to is a stream header, and no later frame is.
C18_FirstFrameIsStreamHeader ==
    \A id \in DOMAIN streams :
        \A i \in 1..Len(streams[id].frames) :
            (streams[id].frames[i].kind = "stream_header") <=> (i = 1)

\* The shutdown envelopes written to session c
ShutdownEnvelopes(c) ==
    IF BcStream(c) \notin DOMAIN streams THEN <<>>
    ELSE SelectSeq(streams[BcStream(c)].frames,
                   LAMBDA f : f.kind = "envelope" /\ f.Type = "shutdown")

\* C19 (ShutdownSpec), as claimed: a session that was active when
\* BroadcastShutdown was called is not closed by the server before one
\* shutdown envelope with the grace period has been written to a stream
\* opened for it.
C19_ShutdownBeforeClose ==
    \A c \in bcast.active :
        (state[c] \in {"closing", "closed"} /\ cancelled) =>
            /\ Len(ShutdownEnvelopes(c)) = 1
            /\ ShutdownEnvelopes(c)[1].GracePeriodMs = GracePeriodMs

\* C20 (PoolSpec), as claimed: a connection Get returns from the idle list
\* was created at most max_lifetime ago and last used at most max_idle ago.
C20_ReusedWithinBounds ==
    (lastGet # None /\ "reused" \in DOMAIN lastGet /\ lastGet.reused) =>
        /\ lastGet.at - dialled[lastGet.conn].at <= ConnMaxLifetime
        /\ lastGet.at - lastGet.lastUsed <= ConnMaxIdleTime

\* The connections of the pool that are open: idle, handed out, or being
\* dialled
OpenConns == {c \in PoolConns : dialled[c].status \in {"idle", "held", "dialling"}}

\* C21 (PoolSpec): at most MaxOpenConns connections are open at once, and a
\* Get that finds no valid idle connection while MaxOpenConns are open
\* returns the pool-exhausted error, dials nothing and increments waitCount.
C21_MaxOpenRespected ==
    /\ [](Cardinality(OpenConns) <= MaxOpenConns)
    /\ [][(Get /\ ~poolClosed /\ PopValid(poolIdle).hit = None
           /\ Cardinality(OpenConns \ PopValid(poolIdle).stale) = MaxOpenConns)
          => (/\ lastGet' = [err |-> "connection pool exhausted"]
              /\ waitCount' = waitCount + 1
              /\ Len(dialled') = Len(dialled))]_vars

\* C21: one holder has not yet Put and a second Get was refused
C21_Witness ==
    /\ lastGet = [err |-> "connection pool exhausted"]
    /\ Held # {}
    /\ Cardinality(OpenConns) = MaxOpenConns
    /\ waitCount > 0

\* C22 (ReconnectSpec): with max_attempts = k > 0 the calls 1..k since
\* construction or the last Reset return a non-negative delay and every
\* later call returns the stop sentinel; with max_attempts = 0 the sentinel
\* is never returned.
C22_StopAfterMaxAttempts ==
    lastDelay # None =>
        IF rcConfig.MaxAttempts > 0 /\ lastDelay.n > rcConfig.MaxAttempts
        THEN lastDelay.delay = StopSentinel
        ELSE lastDelay.delay >= 0

\* C22: the call after the last permitted one returned the sentinel
C22_Witness ==
    /\ lastDelay # None
    /\ rcConfig.MaxAttempts > 0
    /\ lastDelay.n = rcConfig.MaxAttempts + 1
    /\ lastDelay.delay = StopSentinel

\* d for the n-th call: min(initial * multiplier^(n-1), max_delay), as the
\* fraction num/den
ExpectedBase(n) ==
    LET p == rcConfig.InitialDelay * Pow(rcConfig.Multiplier.num, n - 1)
        q == Pow(rcConfig.Multiplier.den, n - 1)
    IN  IF p <= rcConfig.MaxDelay * q THEN Ratio(p, q)
        ELSE Ratio(rcConfig.MaxDelay, 1)

\* The call lastDelay records returned a delay, not the sentinel
Delayed == lastDelay # None /\ lastDelay.delay # StopSentinel

\* C23 (ReconnectSpec), as claimed: the n-th delay lies in [d, 1.25 * d].
C23_DelayInRange ==
    Delayed =>
        LET d == ExpectedBase(lastDelay.n)
        IN  /\ d.num <= lastDelay.delay * d.den
            /\ 4 * d.den * lastDelay.delay <= 5 * d.num

\* C23, amended: the n-th delay lies in [floor(d), 1.25 * d], and in
\* [d, 1.25 * d] whenever d is a whole number of clock units.
C23_DelayInRangeTruncated ==
    Delayed =>
        LET d == ExpectedBase(lastDelay.n)
        IN  /\ d.num \div d.den <= lastDelay.delay
            /\ 4 * d.den * lastDelay.delay <= 5 * d.num
            /\ (d.num % d.den = 0) => d.num <= lastDelay.delay * d.den

\* C23: a call whose uncapped delay exceeds max_delay returned max_delay
\* plus some jitter
C23_Witness ==
    /\ Delayed
    /\ rcConfig.InitialDelay * Pow(rcConfig.Multiplier.num, lastDelay.n - 1)
         > rcConfig.MaxDelay * Pow(rcConfig.Multiplier.den, lastDelay.n - 1)
    /\ lastDelay.delay > rcConfig.MaxDelay

IsEnvelope(x) == "Type" \in DOMAIN x

\* The same type, request_id and payload
SameEnvelope(x, y) ==
    /\ x.Type = y.Type
    /\ x.RequestID = y.RequestID
    /\ x.Payload = y.Payload

\* An envelope as NewEnvelope builds it from valid UTF-8: its payload is
\* JSON as json.Marshal writes it
InMarshalForm(env) ==
    /\ env.Payload # None
    /\ Compact(env.Payload.body) = env.Payload.body
    /\ Sanitise(env.RequestID) = env.RequestID

\* C25 (CodecSpec), as claimed: the k-th envelope ReadMessage returns has
\* the type, request_id and payload of the k-th envelope WriteMessage
\* accepted.
C25_RoundTrip ==
    \A k \in 1..Len(received) :
        IsEnvelope(received[k]) =>
            k <= Len(sent) /\ SameEnvelope(received[k], sent[k])

\* C25, amended: the k-th envelope read has the type of the k-th envelope
\* accepted and the payload and request_id json.Marshal wrote for it,
\* which are those of the envelope when it is in json.Marshal's form.
C25_RoundTripInMarshalForm ==
    \A k \in 1..Len(received) :
        IsEnvelope(received[k]) =>
            /\ k <= Len(sent)
            /\ received[k].Type = sent[k].Type
            /\ received[k].RequestID = Sanitise(sent[k].RequestID)
            /\ received[k].Payload.body =
                  IF sent[k].Payload = None THEN <<"n", "u", "l", "l">>
                  ELSE Compact(sent[k].Payload.body)
            /\ InMarshalForm(sent[k]) => SameEnvelope(received[k], sent[k])

\* C25: two envelopes were written and read back, the second with a
\* request_id
C25_Witness ==
    /\ Len(sent) = 2
    /\ Len(received) = 2
    /\ IsEnvelope(received[1]) /\ IsEnvelope(received[2])
    /\ InMarshalForm(sent[1]) /\ InMarshalForm(sent[2])
    /\ sent[1].Type # sent[2].Type
    /\ sent[2].RequestID # <<>>

\* C26 (FramingSpec): on the wire every length prefix is followed at once
\* by the payload of the same WriteMessage call, the frames are those of
\* the accepted envelopes in the order in which the writers took the
\* mutex, and every ReadMessage returns one whole frame, in that order.
C26_FramesNotInterleaved ==
    /\ \A i \in 1..Len(wire.chunks) :
          LET chunk == wire.chunks[i]
          IN  IF i % 2 = 1 THEN chunk.kind = "len"
              ELSE /\ chunk.kind = "data"
                   /\ chunk.w = wire.chunks[i - 1].w
                   /\ chunk.n = wire.chunks[i - 1].n
                   /\ i \div 2 <= Len(sent)
                   /\ chunk.data = Marshal(sent[i \div 2])
    /\ \A k \in 1..Len(received) :
          IF IsEnvelope(received[k])
          THEN /\ 2 * k <= Len(wire.chunks)
               /\ received[k] = Unmarshal(wire.chunks[2 * k].data)
          ELSE received[k] \in {ErrConnectionClosed,
                                Err("failed to read message payload")}

\* C26: two writers wrote one frame each and two readers read one each
C26_Witness ==
    /\ Len(wire.chunks) = 4
    /\ wire.chunks[2].w # wire.chunks[4].w
    /\ Len(received) = 2
    /\ \A r \in Readers : rd[r].result # None /\ IsEnvelope(rd[r].result)
    /\ rd[1].result # rd[2].result

\* C27 (LimitSpec): WriteMessage accepts a serialised envelope of
\* MaxMessageSize bytes and rejects a longer one, writing nothing;
\* ReadMessage goes on to the payload after a length prefix of up to
\* MaxMessageSize and returns an error after a prefix of 0 or of more,
\* having read the prefix only.
C27_FrameLimit ==
    /\ [][\A env \in LimitEnvelopes :
            WrLock(1, env) =>
                IF Marshal(env).size <= MaxMessageSize
                THEN wr'[1].pc = "prefix" /\ sent' = Append(sent, env)
                ELSE /\ wr'[1].pc = "idle"
                     /\ wr'[1].result = "message size exceeds maximum"
                     /\ wire' = wire
                     /\ sent' = sent]_vars
    /\ [](\A i \in 1..Len(wire.chunks) :
            wire.chunks[i].w # 0 => wire.chunks[i].n <= MaxMessageSize)
    /\ [][(RdPrefix(1) /\ codec.pos <= Len(wire.chunks)
              /\ wire.chunks[codec.pos].kind = "len")
            => LET n == wire.chunks[codec.pos].n
               IN  IF 1 <= n /\ n <= MaxMessageSize
                   THEN /\ rd'[1].pc = "payload"
                        /\ received' = received
                   ELSE /\ rd'[1].pc = "idle"
                        /\ codec'.pos = codec.pos + 1
                        /\ received' = Append(received,
                              IF n = 0
                              THEN Err("message length cannot be zero")
                              ELSE Err("message size exceeds maximum"))]_vars

\* C27: an envelope of exactly MaxMessageSize bytes was written and read
\* back, a longer one was refused by WriteMessage, and a longer length
\* prefix was refused by ReadMessage
C27_Witness ==
    /\ wr[1].result = "message size exceeds maximum"
    /\ \E k \in 1..Len(received) :
          /\ IsEnvelope(received[k])
          /\ Marshal(received[k]).size = MaxMessageSize
    /\ \E k \in 1..Len(received) :
          received[k] = Err("message size exceeds maximum")

\* C28 (EofSpec), as claimed: when the stream ends, ReadMessage returns
\* ErrConnectionClosed if it ended at a frame boundary and
\* ErrInvalidMessage if it ended inside the length prefix or the payload.
C28_EofDistinguished ==
    \A k \in 1..Len(received) :
        ~IsEnvelope(received[k]) =>
            received[k] \in {ErrConnectionClosed, ErrInvalidMessage}

\* The characters the admission pattern allows after the first one
TailChars ==
    {"a","b","c","d","e","f","g","h","i","j","k","l","m","n","o","p","q",
     "r","s","t","u","v","w","x","y","z","0","1","2","3","4","5","6","7",
     "8","9","-"}

\* s matches ^[a-z][a-z0-9-]{2,62}$, spelled out
WellFormed(s) ==
    /\ Len(s) \in 3..63
    /\ \E c \in TailChars : c = s[1] /\ c \notin Digits /\ c # "-"
    /\ \A i \in 2..Len(s) : s[i] \in TailChars

\* C29 (ValidateSpec): ValidateSubdomain(s) succeeds exactly when
\* lowercase(s) matches ^[a-z][a-z0-9-]{2,62}$ and is not reserved; lengths
\* 2 and 64 are rejected and 3 and 63 accepted; a name with uppercase
\* letters is lowercased first and accepted; a format failure is reported
\* as SUBDOMAIN_INVALID even for a reserved name, and a well-formed
\* reserved name as SUBDOMAIN_RESERVED.
C29_ValidateSubdomain ==
    validated # None =>
        LET s == ToLower(validated.subdomain)
            reserved == s \in {admin, ab}
        IN  /\ validated.err = NoError <=> WellFormed(s) /\ ~reserved
            /\ ~WellFormed(s) => validated.err = ErrSubdomainInvalid
            /\ WellFormed(s) /\ reserved
                  => validated.err = ErrSubdomainReserved
            /\ Len(s) \in {2, 64} => validated.err = ErrSubdomainInvalid
            /\ validated.subdomain \in {Fill("a", "b", 2), Fill("a", "b", 62),
                                        Fill("M", "Z", 2), Fill("M", "Z", 62),
                                        MyApp}
                  => validated.err = NoError

\* A 63-character name in capitals was accepted
C29_Witness ==
    /\ validated # None
    /\ validated.subdomain = Fill("M", "Z", 62)
    /\ Len(validated.subdomain) = 63
    /\ validated.err = NoError

\* The tunnels of a registry that session sid owns
OwnedBy(tunnels, sid) == {k \in DOMAIN tunnels : tunnels[k].Session = sid}

\* registry.GetTunnelCount()
GetTunnelCount(tunnels) == Cardinality(DOMAIN tunnels)

\* The Unregister call followed the registration of its session, which
\* held no tunnel before it
UnregisteredAfterRegister ==
    /\ lastUnregister # None
    /\ lastUnregister.registered # None
    /\ lastUnregister.registered.sid = lastUnregister.sid
    /\ OwnedBy(lastUnregister.registered.preTunnels, lastUnregister.sid) = {}

\* C30 (RegistrySpec): Unregister(session_id) removes every registry tunnel
\* of that session and its session entry and leaves the tunnels and the
\* session entries of every other session as they were; when it follows
\* the registration of n tunnels by that session, Lookup fails for each of
\* them and the tunnel count is what it was before the registration.
C30_UnregisterRemovesOnlyItsSession ==
    [][\A sid \in Conns : UnregisterCall(sid) =>
        /\ OwnedBy(regTunnels', sid) = {}
        /\ sid \notin regSessions'
        /\ \A k \in DOMAIN regTunnels \ OwnedBy(regTunnels, sid) :
              k \in DOMAIN regTunnels' /\ regTunnels'[k] = regTunnels[k]
        /\ DOMAIN regTunnels' \subseteq DOMAIN regTunnels
        /\ \A c \in Conns \ {sid} : c \in regSessions' <=> c \in regSessions
        /\ UnregisteredAfterRegister' =>
              /\ \A i \in 1..Len(lastCall.results) :
                    lastCall.results[i].Status = "active" =>
                        Lookup(regTunnels', lastCall.tunnels[i].Subdomain)
                            = None
              /\ GetTunnelCount(regTunnels')
                    = GetTunnelCount(lastCall.preTunnels)]_vars

\* A session registered a tunnel next to a tunnel of another session and
\* was unregistered: the other tunnel is the only one left
C30_Witness ==
    /\ UnregisteredAfterRegister
    /\ OwnedBy(lastUnregister.preTunnels, lastUnregister.sid) # {}
    /\ lastCall = None
    /\ GetTunnelCount(regTunnels) = 1
    /\ regTunnels = lastUnregister.registered.preTunnels
    /\ regSessions = lastUnregister.preSessions \ {lastUnregister.sid}
    /\ regSessions # {}

\* Handler c has returned without establishing a session: a rejection, no
\* active tunnel, or the success response could not be sent
HandshakeFailed(c) ==
    /\ pc[c] = "returned"
    /\ request[c] # None
    /\ reply[c] = None \/ ~reply[c].Success

\* C31 (Spec), as claimed: when the connection handler ends a handshake
\* without establishing a session (any rejection, no active tunnel, or a
\* success response that could not be sent), the multiplexer and the
\* underlying connection are closed by the time the handler returns.
C31_FailedHandshakeReleasesConnection ==
    \A c \in Conns : HandshakeFailed(c) => muxClosed[c] /\ connClosed[c]

\* C32 (TunnelSpec), as claimed: with reconnect enabled and max_attempts =
\* k > 0 the client calls Connect for at most k reconnection attempts in a
\* row, and never once NextDelay has returned the stop sentinel.
C32_NoConnectAfterStop ==
    (rcConfig.Enabled /\ rcConfig.MaxAttempts > 0 /\ tun.pc = "connect") =>
        /\ lastDelay.delay # StopSentinel
        /\ rc.attempts <= rcConfig.MaxAttempts

\* C33 (PoolSpec), as claimed: the created_at of every idle entry is the
\* time its connection was dialled, however often it went through Get and
\* Put, so no connection older than max_lifetime is handed out again.
C33_PutKeepsCreatedAt ==
    /\ \A i \in 1..Len(poolIdle) :
          poolIdle[i].createdAt = dialled[poolIdle[i].conn].at
    /\ (lastGet # None /\ "reused" \in DOMAIN lastGet /\ lastGet.reused) =>
          lastGet.createdAt = dialled[lastGet.conn].at

\* C37 (PoolSpec), as claimed: num_open is never negative and equals the
\* number of connections that are idle, handed out and not yet returned,
\* or being dialled.
C37_NumOpenAccounts ==
    /\ numOpen >= 0
    /\ numOpen = Cardinality(OpenConns)

\* C38 (TunnelSpec), as claimed: once Tunnel.Close has been called the
\* state stays closed whatever the accept loop, a Connect in progress or a
\* reconnect attempt do, and no multiplexer is open once the accept loop
\* has exited and Close returns.
C38_ClosedIsTerminal ==
    tun.ctxDone =>
        /\ tun.state = "closed"
        /\ tun.pc = "exit" => tun.mux # "open"

\* The handler of session d stored the session and has not unregistered it
Established(d) ==
    pc[d] \in {"activate", "supervise", "closeSession", "cleanup",
               "unregister"}

\* Tunnel i of request req comes after an earlier tunnel of the same
\* request with the same lowercased subdomain
RepeatedInRequest(req, i) ==
    \E j \in 1..(i - 1) :
        ToLower(req.Tunnels[j].Subdomain) = ToLower(req.Tunnels[i].Subdomain)

\* C39 (Spec): a subdomain held by an established session stays
\* registered to it, also after its connection has dropped, until the
\* session's handler has left the supervision loop and unregisters it; a
\* handshake that asks for the subdomain before that is answered
\* SUBDOMAIN_TAKEN and leaves the entry alone, and a handshake that asks
\* for it when no session holds it obtains it.
C39_HeldUntilUnregistered ==
    /\ [][\A d \in Conns : \A k \in DOMAIN regTunnels :
            (/\ Established(d)
             /\ regTunnels[k].Session = d
             /\ k \notin DOMAIN regTunnels' \/ regTunnels'[k].Session # d)
                => pc[d] = "unregister" /\ pc'[d] = "returned"]_vars
    /\ [][\A c \in Conns : \A req \in Requests :
            RegisterStep(c, req) =>
                \A i \in 1..Len(req.Tunnels) :
                    LET k == ToLower(req.Tunnels[i].Subdomain)
                    IN  (/\ ValidateSubdomain(k) = NoError
                         /\ GetSubdomainOwner(owner, k) \in {NoOwner, req.Token}
                         /\ ~RepeatedInRequest(req, i))
                        => IF k \in DOMAIN regTunnels
                           THEN /\ statuses'[c][i].Status = "error"
                                /\ statuses'[c][i].Error = ErrSubdomainTaken
                                /\ regTunnels'[k] = regTunnels[k]
                           ELSE /\ statuses'[c][i].Status = "active"
                                /\ regTunnels'[k].Session = c]_vars

\* A handshake was answered SUBDOMAIN_TAKEN for a subdomain whose holder
\* has dropped its connection and is still in the supervision loop
C39_Witness ==
    \E c \in Conns, d \in Conns :
        /\ c # d
        /\ pc[d] = "supervise"
        /\ muxClosed[d]
        /\ token[c] = token[d]
        /\ pc[c] = "track"
        /\ \E i \in 1..Len(statuses[c]) :
              /\ statuses[c][i].Error = ErrSubdomainTaken
              /\ ToLower(request[c].Tunnels[i].Subdomain) \in DOMAIN regTunnels
              /\ regTunnels[ToLower(request[c].Tunnels[i].Subdomain)].Session
                    = d

\* C34 (StreamSpec), as claimed: for every stream whose header the client
\* read, the request observers were notified at the start and again when
\* the request was done, whether forwarding succeeded or failed, and the
\* stream is closed once the worker has returned.
C34_NotifiedStartAndDone ==
    \A w \in StreamWorkers :
        hs[w].pc = "returned" =>
            /\ hs[w].closed
            /\ hs[w].header => Len(hs[w].notified) = 2

\* C35 (FairWsSpec), as claimed: once either copy direction has returned,
\* the WebSocket handler finishes and closes the caller's connection and
\* the tunnel stream, without waiting for the other direction.
C35_ReturnsAtFirstCopy ==
    \A u \in Upgrades :
        (ws[u].toStream = "done" \/ ws[u].toCaller = "done")
            ~> (/\ ws[u].pc = "returned"
                /\ ws[u].clientConnClosed
                /\ ws[u].streamClosed)

\* The owner checker names, for tunnel i of the last Register call, an
\* owner that is not the calling session's token
OwnedBySomeoneElse(i) ==
    LET o == GetSubdomainOwner(owner, ToLower(lastCall.tunnels[i].Subdomain))
    IN  o # NoOwner /\ o # token[lastCall.sid]

\* C36 (RegistrySpec): Register checks each tunnel in the order subdomain
\* validation, owner, collision and reports the first failure: a valid
\* subdomain whose owner is set and is not the session's token is refused
\* as SUBDOMAIN_RESERVED and its entry is left as it was, whether or not
\* another session holds it; one whose owner is the session's token goes
\* on to the collision check.
C36_OwnerBeforeCollision ==
    lastCall # None =>
        \A i \in 1..Len(lastCall.tunnels) :
            LET k == ToLower(lastCall.tunnels[i].Subdomain)
                res == lastCall.results[i]
            IN  IF ValidateSubdomain(k) # NoError
                THEN res.Status = "error" /\ res.Error = ValidateSubdomain(k)
                ELSE IF OwnedBySomeoneElse(i)
                THEN /\ res.Status = "error"
                     /\ res.Error = ErrSubdomainReserved
                     /\ k \in DOMAIN regTunnels <=> k \in DOMAIN lastCall.preTunnels
                     /\ k \in DOMAIN regTunnels =>
                            regTunnels[k] = lastCall.preTunnels[k]
                ELSE IF HeldByOther(i)
                THEN res.Status = "error" /\ res.Error = ErrSubdomainTaken
                ELSE /\ res.Status = "active"
                     /\ regTunnels[k].Session = lastCall.sid

\* A subdomain held by another session and owned by someone else was
\* refused as reserved, and one owned by the caller and held by another
\* session would be refused as taken
C36_Witness ==
    /\ lastCall # None
    /\ \E i \in 1..Len(lastCall.tunnels) :
          /\ ValidateSubdomain(ToLower(lastCall.tunnels[i].Subdomain)) = NoError
          /\ OwnedBySomeoneElse(i)
          /\ HeldByOther(i)
          /\ lastCall.results[i].Error = ErrSubdomainReserved

\* C40 (ProbeSpec), as claimed: a connection that the health probe
\* accepted and Get returned still delivers to its next user every byte
\* the local service sent on it while it was idle.
C40_ProbeKeepsData ==
    (lastGet # None /\ "reused" \in DOMAIN lastGet /\ lastGet.reused) =>
        lastGet.readable = lastGet.sent

====
